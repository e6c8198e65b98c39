---------------------------- MODULE TicketProofs ----------------------------
(***************************************************************************)
(* Proofs about TicketService for every number of requests, attachments,   *)
(* organizations and tickets, and every lifetime.                          *)
(***************************************************************************)
EXTENDS TicketInvariant, TLAPS

-----------------------------------------------------------------------------
(* What the other requests rely on. *)

RequestOK(s) == LocalsOK(s) /\ RowGone(s) /\ LogoChecked(s) /\ CountedEarly(s)

(* Time and the identifiers drawn go forward; a row that was there is not  *)
(* unconfirmed, and a row that appears has a new identifier.               *)
Evolves ==
  /\ now' \in Nat /\ now <= now' /\ used \subseteq used'
  /\ \A a \in Attachment : Exists(a)' =>
       \/ Exists(a) /\ (attachment[a].isUploaded => attachment'[a].isUploaded)
       \/ a \notin used

LEMMA RequestKept ==
  ASSUME TypeOK, Evolves, NEW t \in Session, RequestOK(t),
         UNCHANGED <<pc[t], call[t]>>
  PROVE  RequestOK(t)'
<1>1. LocalsOK(t)'
  BY DEF RequestOK, LocalsOK, Evolves
<1>2. RowGone(t)'
  BY DEF RequestOK, RowGone, LocalsOK, Evolves, OnObject
<1>3. LogoChecked(t)'
  BY DEF RequestOK, LogoChecked, LocalsOK, Evolves
<1>4. CountedEarly(t)'
  BY DEF RequestOK, CountedEarly, LocalsOK, Evolves, OnUrl, Download, urlExpiresAt, TypeOK
<1> QED BY <1>1, <1>2, <1>3, <1>4 DEF RequestOK

LEMMA RequestsKept ==
  ASSUME TypeOK, RequestsOK, Evolves, NEW s \in Session, Others(s), Shape', RequestOK(s)'
  PROVE  RequestsOK'
<1>1. ASSUME NEW t \in Session, t # s PROVE RequestOK(t)'
  BY <1>1, RequestKept DEF Others, RequestsOK, RequestOK
<1> QED BY <1>1 DEF RequestsOK, RequestOK, Shape

(* What a step of a request has to show, for the state and for itself.     *)
StateOK ==
  TypeOK /\ FreshRows /\ LinksConfirmed /\ LogoUploaded /\ ServedUrlsWork /\ CachesEarly

StepOK(s) == Evolves /\ Others(s) /\ Shape' /\ RequestOK(s)' /\ StateOK'

LEMMA StepKeeps ==
  ASSUME IInv, NEW s \in Session, StepOK(s)
  PROVE  IInv'
BY RequestsKept DEF IInv, StepOK, StateOK

(* A step that leaves the tables and the bucket as they are. *)
LEMMA TablesKept ==
  ASSUME StateOK, Shape', UNCHANGED <<now, ticket, files>>, pc' \in [Session -> Label],
         served' \subseteq Url, \A url \in served' : url.until > now + Buffer
  PROVE  StateOK' /\ Evolves
<1>1. TypeOK'
  BY DEF StateOK, TypeOK, files
<1>2. FreshRows' /\ LinksConfirmed' /\ LogoUploaded' /\ CachesEarly'
  BY DEF StateOK, FreshRows, LinksConfirmed, LogoUploaded, CachesEarly, Exists, files
<1>3. ServedUrlsWork' /\ Evolves
  BY DEF StateOK, ServedUrlsWork, Evolves, TypeOK, Exists, files
<1> QED BY <1>1, <1>2, <1>3 DEF StateOK

(* Where a request goes keeps the labels. *)
LEMMA LabelsKept ==
  ASSUME TypeOK, NEW s \in Session, Others(s), Shape', pc'[s] \in Label
  PROVE  pc' \in [Session -> Label]
BY DEF TypeOK, Others, Shape

-----------------------------------------------------------------------------
(* Requests that read, or work on the bucket's side only. *)

Reads(s) ==
  \/ \E a \in Attachment : getValidPresignedUrl(s, a) \/ delete(s, a)
  \/ \E o \in Organization, a \in Attachment \cup {NULL} : updateOrganization(s, o, a)
  \/ presignedGetObject(s) \/ cleanupUnusedAttachments(s)

LEMMA ReadsKeep ==
  ASSUME IInv, NEW s \in Session, Reads(s), UNCHANGED ticket
  PROVE  IInv'
<1>1. Shape /\ RequestOK(s) /\ StateOK
  BY DEF IInv, RequestsOK, RequestOK, Shape, StateOK
<1>2. TypeOK /\ FreshRows
  BY <1>1 DEF StateOK
<1>3. UNCHANGED <<now, files>>
  BY DEF Reads, getValidPresignedUrl, delete, updateOrganization, presignedGetObject,
         cleanupUnusedAttachments, Quiet
<1>4. CASE \E a \in Attachment : getValidPresignedUrl(s, a) /\ CacheValid(attachment[a])
  <2>1. PICK a \in Attachment : getValidPresignedUrl(s, a) /\ CacheValid(attachment[a])
    BY <1>4
  <2>2. served' = {attachment[a].url} /\ UNCHANGED requests
    BY <2>1 DEF getValidPresignedUrl
  <2>3. attachment[a] \in AttachmentRow /\ attachment[a].url \in Url
    BY <1>2, <2>1 DEF getValidPresignedUrl, findOne, Exists, TypeOK, CacheValid, AttachmentRow
  <2>4. attachment[a].url.until > now + Buffer
    <3>1. attachment[a].urlExpiresAt \in Nat
          /\ attachment[a].urlExpiresAt <= attachment[a].url.until
      BY <1>1, <2>1 DEF StateOK, CachesEarly, getValidPresignedUrl, findOne, CacheValid
    <3> QED BY <1>2, <2>1, <2>3, <3>1, AttachmentConstants DEF CacheValid, TypeOK, Url
  <2>5. Shape' /\ Others(s) /\ pc' \in [Session -> Label]
    BY <1>1, <1>2, <2>2 DEF requests, Shape, Others, TypeOK
  <2>6. StateOK' /\ Evolves
    BY <1>1, <1>3, <2>2, <2>3, <2>4, <2>5, TablesKept
  <2>7. RequestOK(s)'
    BY <1>1, <1>2, <2>2, <2>6, RequestKept DEF requests
  <2> QED BY <2>5, <2>6, <2>7, StepKeeps DEF StepOK
<1>5. CASE ~\E a \in Attachment : getValidPresignedUrl(s, a) /\ CacheValid(attachment[a])
  <2> USE DEF At, OnUrl, OnObject
  <2>0. ASSUME NEW a \in Attachment, getValidPresignedUrl(s, a)
        PROVE  /\ served' = {} /\ Shape' /\ Others(s) /\ pc'[s] = "url.presign"
               /\ call'[s] \in Download /\ call'[s].at = now
    <3> DEFINE c == [attachment |-> a, at |-> now, expiry |-> ExpiryOf(attachment[a]), url |-> NULL]
    <3>1. served' = {} /\ Goto(s, "url.presign", c) /\ ExpiryOf(attachment[a]) \in Nat
      BY <1>5, <2>0, AttachmentConstants DEF getValidPresignedUrl, ExpiryOf
    <3>2. c \in Download /\ c.at = now
      BY <1>2, <3>1 DEF Download, TypeOK
    <3> HIDE DEF c
    <3> QED BY <1>1, <3>1, <3>2, GotoEffect
  <2>1. /\ served' = {} /\ Shape' /\ Others(s) /\ pc'[s] \in Label
        /\ LocalsOK(s)' /\ pc'[s] \notin OnObject
    <3> USE <1>1, GotoEffect DEF Quiet, Label, LocalsOK
    <3>1. CASE \E a \in Attachment : getValidPresignedUrl(s, a)
      BY <2>0, <3>1
    <3>2. CASE \E a \in Attachment : delete(s, a)
      BY <3>2 DEF delete
    <3>3. CASE \E o \in Organization, a \in Attachment \cup {NULL} : updateOrganization(s, o, a)
      BY <3>3 DEF updateOrganization
    <3>4. CASE presignedGetObject(s)
      BY <1>2, <3>4 DEF presignedGetObject, RequestOK, Download, Url, TypeOK
    <3>5. CASE cleanupUnusedAttachments(s)
      BY <1>2, <1>3, <3>5 DEF cleanupUnusedAttachments, Expired, FreshRows, files
    <3> QED BY <3>1, <3>2, <3>3, <3>4, <3>5 DEF Reads
  <2>2. LogoChecked(s)'
    <3>1. CASE \E o \in Organization, a \in Attachment \cup {NULL} : updateOrganization(s, o, a)
      BY <1>1, <1>2, <1>3, <3>1, GotoEffect
         DEF updateOrganization, LogoChecked, findOne, FreshRows, files, Exists
    <3>2. CASE \E a \in Attachment : getValidPresignedUrl(s, a) \/ delete(s, a)
      BY <1>1, <2>0, <3>2, GotoEffect DEF delete, LogoChecked
    <3>3. CASE presignedGetObject(s) \/ cleanupUnusedAttachments(s)
      BY <1>1, <3>3, GotoEffect DEF presignedGetObject, cleanupUnusedAttachments, LogoChecked
    <3> QED BY <3>1, <3>2, <3>3 DEF Reads
  <2>3. CountedEarly(s)'
    <3>1. CASE \E a \in Attachment : getValidPresignedUrl(s, a)
      BY <1>2, <1>3, <2>0, <3>1 DEF CountedEarly, TypeOK
    <3>2. CASE presignedGetObject(s)
      BY <1>1, <1>2, <1>3, <3>2, GotoEffect
         DEF presignedGetObject, CountedEarly, RequestOK, LocalsOK, Download, Url, urlExpiresAt, TypeOK
    <3>3. CASE \E a \in Attachment : delete(s, a)
      BY <1>1, <3>3, GotoEffect DEF delete, CountedEarly
    <3>4. CASE \E o \in Organization, a \in Attachment \cup {NULL} : updateOrganization(s, o, a)
      BY <1>1, <3>4, GotoEffect DEF updateOrganization, CountedEarly
    <3>5. CASE cleanupUnusedAttachments(s)
      BY <1>1, <3>5, GotoEffect DEF cleanupUnusedAttachments, CountedEarly
    <3> QED BY <3>1, <3>2, <3>3, <3>4, <3>5 DEF Reads
  <2>4. RequestOK(s)'
    BY <2>1, <2>2, <2>3 DEF RequestOK, RowGone
  <2>5. StateOK' /\ Evolves
    BY <1>1, <1>2, <1>3, <2>1, LabelsKept, TablesKept
  <2> QED BY <2>1, <2>4, <2>5, StepKeeps DEF StepOK
<1> QED BY <1>4, <1>5

-----------------------------------------------------------------------------
(* Requests that write. *)

(* The bucket and its URLs do not matter to the rows. *)
LEMMA BucketStep ==
  ASSUME IInv, NEW s \in Session,
         presignedPutObject(s) \/ deleteObject(s) \/ cleanupObject(s), UNCHANGED ticket
  PROVE  IInv'
<1>1. Shape /\ RequestOK(s) /\ TypeOK
  BY DEF IInv, RequestsOK, RequestOK, Shape
<1>2. /\ UNCHANGED <<now, attachment, used, link, logo, ticket>> /\ served' = {}
      /\ bucket' \subseteq ObjectName /\ upload' \in [Attachment -> PutUrl \cup {NULL}]
  <2>1. CASE presignedPutObject(s)
    <3> DEFINE url == [name |-> call[s].name, until |-> now + PutLife]
    <3>1. url \in PutUrl
      BY <1>1, <2>1, AttachmentConstants DEF presignedPutObject, RequestOK, LocalsOK, PutUrl, TypeOK, At
    <3> QED BY <1>1, <2>1, <3>1 DEF presignedPutObject, TypeOK, Quiet
  <2>2. CASE deleteObject(s)
    BY <1>1, <2>2 DEF deleteObject, TypeOK, Quiet
  <2>3. CASE cleanupObject(s)
    BY <1>1, <2>3 DEF cleanupObject, TypeOK, Quiet
  <2> QED BY <2>1, <2>2, <2>3
<1>3. Shape' /\ Others(s) /\ pc'[s] \in {"idle", "cleanup.row"} /\ LocalsOK(s)'
  BY <1>1, GotoEffect, ReturnEffect
     DEF presignedPutObject, deleteObject, cleanupObject, Continue, RequestOK, LocalsOK, At, OnUrl, OnObject
<1>4. RequestOK(s)'
  BY <1>3 DEF RequestOK, RowGone, LogoChecked, CountedEarly, OnObject
<1>5. Evolves
  BY <1>1, <1>2 DEF Evolves, TypeOK, Exists
<1>6. TypeOK'
  BY <1>1, <1>2, <1>3, LabelsKept DEF TypeOK, Label
<1>7. (FreshRows /\ LinksConfirmed /\ LogoUploaded /\ ServedUrlsWork /\ CachesEarly)'
  BY <1>2 DEF IInv, FreshRows, LinksConfirmed, LogoUploaded, ServedUrlsWork, CachesEarly, Exists
<1> QED BY <1>3, <1>4, <1>5, <1>6, <1>7, StepKeeps DEF StepOK, StateOK

(* A row is inserted under a new identifier. *)
LEMMA CreateStep ==
  ASSUME IInv, NEW s \in Session, NEW a \in Attachment, NEW public \in BOOLEAN, NEW bare \in BOOLEAN,
         createAttachment(s, a, public, bare), UNCHANGED ticket
  PROVE  IInv'
<1> DEFINE row == [public |-> public, isUploaded |-> FALSE, expiresAt |-> now + UploadLife,
                   url |-> NULL, urlExpiresAt |-> NULL]
<1>1. Shape /\ TypeOK
  BY DEF IInv, RequestsOK, Shape
<1>2. /\ a \notin used /\ used' = used \cup {a} /\ attachment' = [attachment EXCEPT ![a] = row]
      /\ UNCHANGED <<now, link, logo, bucket, upload, ticket>> /\ served' = {}
      /\ Goto(s, "create.presign", [attachment |-> a, name |-> setFileExtension(a, bare)])
  BY DEF createAttachment, Quiet
<1>3. row \in AttachmentRow /\ row.url = NULL
  BY <1>1, AttachmentConstants DEF AttachmentRow, TypeOK
<1> HIDE DEF row
<1>4. ~Exists(a)
  BY <1>2 DEF IInv, FreshRows
<1>5. \A b \in Attachment : b # a => attachment'[b] = attachment[b]
  BY <1>1, <1>2 DEF TypeOK
<1>6. attachment'[a] = row
  BY <1>1, <1>2 DEF TypeOK
<1>7. Shape' /\ Others(s) /\ pc'[s] = "create.presign" /\ LocalsOK(s)'
  BY <1>1, <1>2, GotoEffect DEF LocalsOK, setFileExtension, ObjectName, OnUrl, OnObject
<1>8. RequestOK(s)'
  BY <1>7 DEF RequestOK, RowGone, LogoChecked, CountedEarly, OnObject
<1>9. Evolves
  BY <1>1, <1>2, <1>5 DEF Evolves, TypeOK, Exists
<1>10. TypeOK'
  BY <1>1, <1>2, <1>3, <1>7, LabelsKept DEF TypeOK, Label
<1>11. (FreshRows /\ CachesEarly /\ ServedUrlsWork)'
  BY <1>2, <1>3, <1>5, <1>6 DEF IInv, FreshRows, CachesEarly, ServedUrlsWork, Exists
<1>12. LinksConfirmed'
  BY <1>1, <1>2, <1>4, <1>5 DEF IInv, LinksConfirmed, Exists, TypeOK
<1>13. LogoUploaded'
  BY <1>1, <1>2, <1>4, <1>5 DEF IInv, LogoUploaded, Exists, TypeOK
<1> QED BY <1>7, <1>8, <1>9, <1>10, <1>11, <1>12, <1>13, StepKeeps DEF StepOK, StateOK

(* A row is deleted, its links with it; or it is not. *)
LEMMA DeleteStep ==
  ASSUME IInv, NEW s \in Session, deleteAttachment(s) \/ cleanupRow(s), UNCHANGED ticket
  PROVE  IInv'
<1>1. Shape /\ TypeOK /\ RequestOK(s)
  BY DEF IInv, RequestsOK, RequestOK, Shape
<1>2. UNCHANGED <<now, used, logo, bucket, upload, ticket>> /\ served' = {}
  BY DEF deleteAttachment, cleanupRow, Quiet
<1>3. CASE Return(s) /\ UNCHANGED <<attachment, link>>
  <2>1. Shape' /\ Others(s) /\ pc'[s] = "idle"
    BY <1>1, <1>3, ReturnEffect
  <2>2. RequestOK(s)'
    BY <2>1 DEF RequestOK, LocalsOK, RowGone, LogoChecked, CountedEarly, OnObject, OnUrl
  <2>3. StateOK' /\ Evolves
    BY <1>1, <1>2, <1>3, <2>1, LabelsKept, TablesKept DEF IInv, StateOK, files, Label
  <2> QED BY <2>1, <2>2, <2>3, StepKeeps DEF StepOK
<1>4. CASE \E a \in Attachment :
             /\ ~IsLogo(a) /\ deleteRow(a) /\ a \in used
             /\ Shape' /\ Others(s) /\ pc'[s] \in OnObject /\ call'[s].attachment = a
             /\ pc'[s] = "cleanup.object" => call'[s].todo \subseteq used
  <2>1. PICK a \in Attachment :
             /\ ~IsLogo(a) /\ deleteRow(a) /\ a \in used
             /\ Shape' /\ Others(s) /\ pc'[s] \in OnObject /\ call'[s].attachment = a
             /\ pc'[s] = "cleanup.object" => call'[s].todo \subseteq used
    BY <1>4
  <2>2. /\ attachment'[a] = NULL /\ \A b \in Attachment : b # a => attachment'[b] = attachment[b]
        /\ link' = {l \in link : l[2] # a}
    BY <1>1, <2>1 DEF deleteRow, TypeOK
  <2>3. RequestOK(s)'
    BY <1>2, <2>1, <2>2
       DEF RequestOK, LocalsOK, RowGone, LogoChecked, CountedEarly, OnObject, OnUrl, Exists
  <2>4. Evolves
    BY <1>1, <1>2, <2>2 DEF Evolves, TypeOK, Exists
  <2>5. TypeOK'
    BY <1>1, <1>2, <2>1, <2>2, LabelsKept DEF TypeOK, Label, OnObject, deleteRow
  <2>6. (FreshRows /\ CachesEarly /\ ServedUrlsWork)'
    BY <1>2, <2>2 DEF IInv, FreshRows, CachesEarly, ServedUrlsWork, Exists
  <2>7. LinksConfirmed'
    BY <1>1, <2>2 DEF IInv, LinksConfirmed, Exists, TypeOK
  <2>8. LogoUploaded'
    BY <1>1, <1>2, <2>1, <2>2 DEF IInv, LogoUploaded, Exists, TypeOK, IsLogo
  <2> QED BY <2>1, <2>3, <2>4, <2>5, <2>6, <2>7, <2>8, StepKeeps DEF StepOK, StateOK
<1>5. CASE deleteAttachment(s)
  <2>1. Exists(call[s].attachment) => call[s].attachment \in used
    BY <1>1, <1>5 DEF IInv, FreshRows, deleteAttachment, RequestOK, LocalsOK, At
  <2> QED BY <1>1, <1>3, <1>4, <1>5, <2>1, GotoEffect
          DEF deleteAttachment, RequestOK, LocalsOK, At, OnObject
<1>6. CASE cleanupRow(s)
  <2>1. PICK a \in call[s].todo :
          \/ IsLogo(a) /\ Return(s) /\ UNCHANGED <<attachment, link>>
          \/ /\ ~IsLogo(a) /\ deleteRow(a)
             /\ Goto(s, "cleanup.object", [attachment |-> a, todo |-> call[s].todo \ {a}])
    BY <1>6 DEF cleanupRow
  <2>2. call[s].todo \subseteq used /\ used \subseteq Attachment
    BY <1>1, <1>6 DEF cleanupRow, RequestOK, LocalsOK, At, TypeOK
  <2> QED BY <1>1, <1>3, <1>4, <2>1, <2>2, GotoEffect DEF OnObject
<1> QED BY <1>5, <1>6

(* A row keeps its identifier and its confirmation: the URL is stored.     *)
LEMMA StoreStep ==
  ASSUME IInv, NEW s \in Session, storeUrl(s), UNCHANGED ticket
  PROVE  IInv'
<1> DEFINE a == call[s].attachment
<1> DEFINE row == [attachment[a] EXCEPT !.url = call[s].url, !.urlExpiresAt = urlExpiresAt(s)]
<1>1. Shape /\ TypeOK /\ RequestOK(s)
  BY DEF IInv, RequestsOK, RequestOK, Shape
<1>2. UNCHANGED <<now, used, link, logo, bucket, upload, ticket>> /\ served' = {}
  BY DEF storeUrl, Quiet
<1>3. Shape' /\ Others(s) /\ pc'[s] = "idle"
  BY <1>1, ReturnEffect DEF storeUrl
<1>4. /\ a \in Attachment /\ call[s].url \in Url
      /\ urlExpiresAt(s) \in Nat /\ urlExpiresAt(s) <= call[s].url.until
  BY <1>1 DEF storeUrl, At, RequestOK, LocalsOK, CountedEarly, OnUrl, Download, urlExpiresAt
<1>5. \A b \in Attachment : b # a => attachment'[b] = attachment[b]
  BY <1>1 DEF storeUrl, TypeOK
<1>6. CASE ~Exists(a)
  <2>1. attachment' = attachment
    BY <1>1, <1>4, <1>5, <1>6 DEF storeUrl, TypeOK
  <2>2. RequestOK(s)'
    BY <1>3 DEF RequestOK, LocalsOK, RowGone, LogoChecked, CountedEarly, OnObject, OnUrl
  <2>3. StateOK' /\ Evolves
    BY <1>1, <1>2, <1>3, <2>1, LabelsKept, TablesKept DEF IInv, StateOK, files, Label
  <2> QED BY <1>3, <2>2, <2>3, StepKeeps DEF StepOK
<1>7. CASE Exists(a)
  <2>1. attachment' = [attachment EXCEPT ![a] = row] /\ attachment'[a] = row
    BY <1>1, <1>4, <1>7 DEF storeUrl, TypeOK
  <2>2. attachment[a] \in AttachmentRow
    BY <1>1, <1>4, <1>7 DEF Exists, TypeOK
  <2>3. /\ row \in AttachmentRow /\ row # NULL
        /\ row.url = call[s].url /\ row.urlExpiresAt = urlExpiresAt(s)
        /\ row.isUploaded = attachment[a].isUploaded /\ row.expiresAt = attachment[a].expiresAt
    BY <1>4, <2>2, AttachmentNull DEF AttachmentRow
  <2> HIDE DEF row
  <2>4. RequestOK(s)'
    BY <1>3 DEF RequestOK, LocalsOK, RowGone, LogoChecked, CountedEarly, OnObject, OnUrl
  <2>5. Evolves
    BY <1>1, <1>2, <1>5, <1>7, <2>1, <2>3 DEF Evolves, TypeOK, Exists
  <2>6. TypeOK'
    BY <1>1, <1>2, <1>3, <2>1, <2>3, LabelsKept DEF TypeOK, Label
  <2>7. (FreshRows /\ CachesEarly /\ ServedUrlsWork)'
    BY <1>2, <1>4, <1>5, <1>7, <2>1, <2>3 DEF IInv, FreshRows, CachesEarly, ServedUrlsWork, Exists
  <2>8. (LinksConfirmed /\ LogoUploaded)'
    BY <1>1, <1>2, <1>5, <1>7, <2>1, <2>3 DEF IInv, LinksConfirmed, LogoUploaded, Exists, TypeOK
  <2> QED BY <1>3, <2>4, <2>5, <2>6, <2>7, <2>8, StepKeeps DEF StepOK, StateOK
<1> QED BY <1>6, <1>7

(* The logo is written: it was uploaded when it was looked up, and its row *)
(* is there.                                                               *)
LEMMA LogoStep ==
  ASSUME IInv, NEW s \in Session, writeOrganization(s), UNCHANGED ticket
  PROVE  IInv'
<1>1. Shape /\ TypeOK /\ RequestOK(s)
  BY DEF IInv, RequestsOK, RequestOK, Shape
<1>2. UNCHANGED <<now, used, attachment, link, bucket, upload, ticket>> /\ served' = {}
  BY DEF writeOrganization, Quiet
<1>3. Shape' /\ Others(s) /\ pc'[s] = "idle"
  BY <1>1, ReturnEffect DEF writeOrganization
<1>4. RequestOK(s)'
  BY <1>3 DEF RequestOK, LocalsOK, RowGone, LogoChecked, CountedEarly, OnObject, OnUrl
<1>5. Evolves
  BY <1>1, <1>2 DEF Evolves, TypeOK, Exists
<1>6. TypeOK'
  BY <1>1, <1>2, <1>3, LabelsKept DEF TypeOK, Label, writeOrganization, RequestOK, LocalsOK, At
<1>7. (FreshRows /\ CachesEarly /\ ServedUrlsWork /\ LinksConfirmed)'
  BY <1>2 DEF IInv, FreshRows, CachesEarly, ServedUrlsWork, LinksConfirmed, Exists
<1>8. LogoUploaded'
  BY <1>1, <1>2 DEF IInv, LogoUploaded, Exists, writeOrganization, RequestOK, LocalsOK, LogoChecked, At, TypeOK
<1> QED BY <1>3, <1>4, <1>5, <1>6, <1>7, <1>8, StepKeeps DEF StepOK, StateOK

-----------------------------------------------------------------------------
(* Messages, confirmations and the other steps. *)

(* Requests that start with a ticket, and requests that fail. *)
LEMMA TicketStep ==
  ASSUME IInv, NEW s \in Session,
         \/ Fail(s)
         \/ \E t \in Ticket, ids \in SUBSET Attachment :
              \/ createTicket(s, t, ids)
              \/ \E senderType \in {"user", "admin"} : addMessage(s, t, senderType, ids)
  PROVE  IInv'
<1>1. Shape /\ TypeOK /\ RequestOK(s)
  BY DEF IInv, RequestsOK, RequestOK, Shape
<1>2. UNCHANGED <<now, files>> /\ served' = {} /\ ticket' \in [Ticket -> Status \cup {NULL}]
  BY <1>1, TicketConstants DEF Fail, createTicket, addMessage, Quiet, TypeOK
<1>3. Shape' /\ Others(s) /\ pc'[s] \in {"idle", "ticket.message"} /\ LocalsOK(s)'
  <2> USE <1>1, GotoEffect, ReturnEffect DEF LocalsOK, OnObject, OnUrl
  <2>1. CASE Fail(s)
    BY <2>1 DEF Fail, Abort
  <2>2. CASE \E t \in Ticket, ids \in SUBSET Attachment : createTicket(s, t, ids)
    <3>1. PICK t \in Ticket, ids \in SUBSET Attachment : createTicket(s, t, ids)
      BY <2>2
    <3> DEFINE reopen == FALSE
    <3>2. reopen \in BOOLEAN /\ Goto(s, "ticket.message", [ticket |-> t, ids |-> ids, reopen |-> reopen])
      BY <3>1 DEF createTicket
    <3> HIDE DEF reopen
    <3> QED BY <3>2
  <2>3. CASE \E t \in Ticket, ids \in SUBSET Attachment, senderType \in {"user", "admin"} :
               addMessage(s, t, senderType, ids)
    <3>1. PICK t \in Ticket, ids \in SUBSET Attachment, senderType \in {"user", "admin"} :
               addMessage(s, t, senderType, ids)
      BY <2>3
    <3> DEFINE reopen == senderType = "user" /\ ticket[t] \in {"closed", "resolved"}
    <3>2. reopen \in BOOLEAN /\ Goto(s, "ticket.message", [ticket |-> t, ids |-> ids, reopen |-> reopen])
      BY <3>1 DEF addMessage
    <3> HIDE DEF reopen
    <3> QED BY <3>2
  <2> QED BY <2>1, <2>2, <2>3
<1>4. RequestOK(s)'
  BY <1>3 DEF RequestOK, RowGone, LogoChecked, CountedEarly, OnObject
<1>5. Evolves
  BY <1>1, <1>2 DEF Evolves, TypeOK, Exists, files
<1>6. TypeOK'
  BY <1>1, <1>2, <1>3, LabelsKept DEF TypeOK, Label, files
<1>7. (FreshRows /\ CachesEarly /\ ServedUrlsWork /\ LinksConfirmed /\ LogoUploaded)'
  BY <1>2 DEF IInv, FreshRows, CachesEarly, ServedUrlsWork, LinksConfirmed, LogoUploaded, Exists, files
<1> QED BY <1>3, <1>4, <1>5, <1>6, <1>7, StepKeeps DEF StepOK, StateOK

(* Rows are confirmed, and linked perhaps to a ticket. *)
LEMMA ConfirmKeeps ==
  ASSUME StateOK, Shape', pc' \in [Session -> Label],
         NEW ids \in SUBSET Attachment, \A a \in ids : Exists(a),
         attachment' = [a \in Attachment |-> IF a \in ids THEN Confirmed(a) ELSE attachment[a]],
         link' \subseteq link \cup (Ticket \X ids),
         ticket' \in [Ticket -> Status \cup {NULL}],
         UNCHANGED <<now, used, logo, bucket, upload>>, served' = {}
  PROVE  StateOK' /\ Evolves
<1>1. TypeOK /\ now \in Nat
  BY DEF StateOK, TypeOK
<1>2. ASSUME NEW a \in ids
      PROVE  /\ attachment'[a] \in AttachmentRow /\ attachment'[a].isUploaded
             /\ attachment'[a].expiresAt = NULL /\ attachment'[a].url = attachment[a].url
             /\ attachment'[a].urlExpiresAt = attachment[a].urlExpiresAt
  <2>1. attachment[a] \in AttachmentRow /\ attachment'[a] = Confirmed(a)
    BY <1>1 DEF TypeOK, Exists
  <2> QED BY <2>1 DEF Confirmed, AttachmentRow
<1>3. \A a \in Attachment \ ids : attachment'[a] = attachment[a]
  OBVIOUS
<1>4. Evolves
  BY <1>1, <1>2, <1>3 DEF Evolves, Exists
<1>5. TypeOK'
  <2>1. attachment' \in [Attachment -> AttachmentRow \cup {NULL}]
    BY <1>1, <1>2, <1>3 DEF TypeOK
  <2> QED BY <1>1, <2>1 DEF TypeOK
<1>6. FreshRows' /\ CachesEarly' /\ ServedUrlsWork'
  BY <1>2, <1>3 DEF StateOK, FreshRows, CachesEarly, ServedUrlsWork, Exists
<1>7. LinksConfirmed' /\ LogoUploaded'
  <2>1. /\ \A a \in ids : attachment'[a] # NULL /\ attachment'[a].isUploaded /\ attachment'[a].expiresAt = NULL
        /\ \A l \in link' : l \in link \/ l[2] \in ids
    BY <1>2, AttachmentNull
  <2>2. \A l \in link' : l[2] \in Attachment
    BY <1>5 DEF TypeOK
  <2>3. LinksConfirmed'
    BY <1>3, <2>1, <2>2 DEF StateOK, LinksConfirmed, Exists
  <2>4. LogoUploaded'
    <3>1. ASSUME NEW o \in Organization, logo[o] # NULL
          PROVE  Exists(logo[o])' /\ attachment'[logo[o]].isUploaded
      <4>1. logo[o] \in Attachment /\ Exists(logo[o]) /\ attachment[logo[o]].isUploaded
        BY <1>1, <3>1 DEF StateOK, LogoUploaded, TypeOK
      <4> QED BY <1>3, <2>1, <4>1 DEF Exists
    <3> QED BY <3>1 DEF LogoUploaded
  <2> QED BY <2>3, <2>4
<1> QED BY <1>4, <1>5, <1>6, <1>7 DEF StateOK

LEMMA MessageStep ==
  ASSUME IInv, NEW s \in Session, commitMessage(s)
  PROVE  IInv'
<1>1. Shape /\ StateOK /\ TypeOK /\ RequestOK(s)
  BY DEF IInv, RequestsOK, RequestOK, Shape, StateOK
<1>2. Shape' /\ Others(s) /\ pc'[s] = "idle"
  BY <1>1, ReturnEffect DEF commitMessage
<1>3. RequestOK(s)'
  BY <1>2 DEF RequestOK, LocalsOK, RowGone, LogoChecked, CountedEarly, OnObject, OnUrl
<1>4. pc' \in [Session -> Label]
  BY <1>1, <1>2, LabelsKept DEF Label
<1>5. UNCHANGED <<now, used, logo, bucket, upload>> /\ served' = {}
  BY DEF commitMessage, Quiet
<1>6. CASE UNCHANGED <<ticket, link, attachment>>
  <2>1. StateOK' /\ Evolves
    BY <1>1, <1>2, <1>4, <1>5, <1>6, TablesKept DEF files
  <2> QED BY <1>2, <1>3, <2>1, StepKeeps DEF StepOK
<1>7. CASE ~UNCHANGED <<ticket, link, attachment>>
  <2> DEFINE ids == call[s].ids
  <2>1. /\ ids \subseteq Attachment /\ call[s].ticket \in Ticket
        /\ \A a \in ids : Exists(a)
        /\ ticket' = [ticket EXCEPT ![call[s].ticket] = IF call[s].reopen THEN "open" ELSE @]
        /\ LinkAndConfirm(call[s].ticket, ids)
    BY <1>1, <1>7 DEF commitMessage, RequestOK, LocalsOK, At
  <2>2. ticket' \in [Ticket -> Status \cup {NULL}]
    BY <1>1, <2>1, TicketConstants DEF TypeOK
  <2>3. link' \subseteq link \cup (Ticket \X ids)
    BY <2>1 DEF LinkAndConfirm
  <2>4. StateOK' /\ Evolves
    BY <1>1, <1>2, <1>4, <1>5, <2>1, <2>2, <2>3, ConfirmKeeps DEF LinkAndConfirm
  <2> QED BY <1>2, <1>3, <2>4, StepKeeps DEF StepOK
<1> QED BY <1>6, <1>7

(* Steps of nobody's request: they leave all that requests know. *)
LEMMA OutsideKeeps ==
  ASSUME IInv, UNCHANGED requests, StateOK', Evolves
  PROVE  IInv'
<1>1. TypeOK /\ RequestsOK
  BY DEF IInv
<1>2. \A t \in Session : RequestOK(t)'
  BY <1>1, RequestKept DEF RequestsOK, RequestOK, requests
<1> QED BY <1>1, <1>2 DEF IInv, StateOK, RequestsOK, RequestOK, requests

LEMMA OneStatementStep ==
  ASSUME IInv, OneStatement
  PROVE  IInv'
<1>1. StateOK /\ TypeOK /\ Shape
  BY DEF IInv, StateOK, RequestsOK, Shape
<1>2. UNCHANGED <<requests, now>> /\ served' = {}
  BY DEF OneStatement, putObject, confirmUpload, updateTicketStatus, Quiet
<1>3. Shape' /\ pc' \in [Session -> Label]
  BY <1>1, <1>2 DEF requests, Shape, TypeOK
<1>4. CASE \E a \in Attachment : putObject(a) /\ UNCHANGED ticket
  <2>1. UNCHANGED <<used, attachment, link, logo, upload, ticket>> /\ bucket' \subseteq ObjectName
    BY <1>1, <1>4, AttachmentNull DEF putObject, TypeOK, PutUrl
  <2>2. TypeOK' /\ Evolves
    BY <1>1, <1>2, <1>3, <2>1 DEF TypeOK, Evolves, Exists
  <2>3. (FreshRows /\ CachesEarly /\ ServedUrlsWork /\ LinksConfirmed /\ LogoUploaded)'
    BY <1>2, <2>1 DEF IInv, FreshRows, CachesEarly, ServedUrlsWork, LinksConfirmed, LogoUploaded, Exists
  <2> QED BY <1>2, <2>2, <2>3, OutsideKeeps DEF StateOK
<1>5. CASE \E a \in Attachment : confirmUpload(a) /\ UNCHANGED ticket
  <2>1. PICK a \in Attachment : confirmUpload(a) /\ UNCHANGED ticket
    BY <1>5
  <2>2. attachment' = [b \in Attachment |-> IF b \in {a} THEN Confirmed(b) ELSE attachment[b]]
    BY <1>1, <2>1 DEF confirmUpload, TypeOK
  <2>3. StateOK' /\ Evolves
    BY <1>1, <1>2, <1>3, <2>1, <2>2, ConfirmKeeps, {a} \in SUBSET Attachment
       DEF confirmUpload, TypeOK
  <2> QED BY <1>2, <2>3, OutsideKeeps
<1>6. CASE \E t \in Ticket, status \in Status : updateTicketStatus(t, status)
  <2>1. UNCHANGED files /\ ticket' \in [Ticket -> Status \cup {NULL}]
    BY <1>1, <1>6 DEF updateTicketStatus, TypeOK
  <2>2. TypeOK' /\ Evolves
    BY <1>1, <1>2, <1>3, <2>1 DEF TypeOK, Evolves, Exists, files
  <2>3. (FreshRows /\ CachesEarly /\ ServedUrlsWork /\ LinksConfirmed /\ LogoUploaded)'
    BY <1>2, <2>1 DEF IInv, FreshRows, CachesEarly, ServedUrlsWork, LinksConfirmed, LogoUploaded, Exists, files
  <2> QED BY <1>2, <2>2, <2>3, OutsideKeeps DEF StateOK
<1> QED BY <1>4, <1>5, <1>6 DEF OneStatement

LEMMA TickStep ==
  ASSUME IInv, Tick
  PROVE  IInv'
<1>1. now \in Nat /\ now' = now + 1 /\ UNCHANGED <<ticket, files, requests>> /\ served' = {}
  BY DEF IInv, TypeOK, Tick
<1>2. TypeOK' /\ Evolves
  BY <1>1 DEF IInv, TypeOK, Evolves, Exists, files, requests
<1>3. (FreshRows /\ CachesEarly /\ ServedUrlsWork /\ LinksConfirmed /\ LogoUploaded)'
  BY <1>1 DEF IInv, FreshRows, CachesEarly, ServedUrlsWork, LinksConfirmed, LogoUploaded, Exists, files
<1> QED BY <1>1, <1>2, <1>3, OutsideKeeps DEF StateOK

LEMMA StutterKeeps ==
  ASSUME IInv, UNCHANGED vars
  PROVE  IInv'
<1>1. TypeOK' /\ Evolves
  BY DEF IInv, TypeOK, Evolves, Exists, files, requests, vars
<1>2. (FreshRows /\ CachesEarly /\ ServedUrlsWork /\ LinksConfirmed /\ LogoUploaded)'
  BY DEF IInv, FreshRows, CachesEarly, ServedUrlsWork, LinksConfirmed, LogoUploaded, Exists, files, vars
<1> QED BY <1>1, <1>2, OutsideKeeps DEF StateOK, vars

LEMMA NextKeeps ==
  ASSUME IInv, [Next]_vars
  PROVE  IInv'
<1>1. ASSUME NEW s \in Session, Files(s) PROVE IInv'
  BY <1>1, ReadsKeep, BucketStep, CreateStep, DeleteStep, StoreStep, LogoStep DEF Files, Reads
<1>2. ASSUME NEW s \in Session, Tickets(s) PROVE IInv'
  BY <1>2, TicketStep, MessageStep DEF Tickets
<1>3. ASSUME NEW s \in Session, Fail(s) PROVE IInv'
  BY <1>3, TicketStep
<1> QED BY <1>1, <1>2, <1>3, OneStatementStep, TickStep, StutterKeeps DEF Next

-----------------------------------------------------------------------------
(* The theorems. *)

(* The invariant holds at first, and every statement of every request,     *)
(* upload, failure and tick of the clock keeps it.                         *)
THEOREM Invariance == Spec => []IInv
<1>1. Init => IInv
  <2>1. Init => TypeOK /\ FreshRows /\ LinksConfirmed /\ LogoUploaded /\ ServedUrlsWork /\ CachesEarly
    BY DEF Init, NoRequests, TypeOK, Label, FreshRows, LinksConfirmed, LogoUploaded, ServedUrlsWork,
           CachesEarly, Exists
  <2>2. Init => RequestsOK
    BY DEF Init, NoRequests, RequestsOK, LocalsOK, RowGone, LogoChecked, CountedEarly, OnObject, OnUrl
  <2> QED BY <2>1, <2>2 DEF IInv
<1> QED BY <1>1, NextKeeps, PTL DEF Spec

(* Rows, links, objects, URLs and requests keep their types. *)
THEOREM TypeCorrect == Spec => []TypeOK
BY Invariance, PTL DEF IInv

(* addMessage, create: what messages link exists and is confirmed, with    *)
(* deletions, confirmations and the cleaner in between.                    *)
THEOREM LinksStayConfirmed == Spec => []LinksConfirmed
BY Invariance, PTL DEF IInv

(* OrganizationService.update: a logo exists and is uploaded, although it  *)
(* is checked before the statement that refers to it.                      *)
THEOREM LogoStaysUploaded == Spec => []LogoUploaded
BY Invariance, PTL DEF IInv

(* getValidPresignedUrl: a cached URL works for longer than the buffer     *)
(* still, for every lifetime and every order of renewals.                  *)
THEOREM ServedUrlsStayGood == Spec => []ServedUrlsWork
BY Invariance, PTL DEF IInv

(* delete, cleanup: the object of an attachment whose row exists is not    *)
(* removed.                                                                *)
THEOREM ObjectsStay == Spec => ObjectsOutliveRows
<1>1. ASSUME IInv, [Next]_vars, NEW a \in Attachment, Exists(a), Exists(a)', NEW n \in bucket, n[1] = a
      PROVE  n \in bucket'
  <2>1. CASE UNCHANGED bucket
    BY <2>1
  <2>2. CASE \E s \in Session : deleteObject(s) \/ cleanupObject(s)
    <3>1. PICK s \in Session : deleteObject(s) \/ cleanupObject(s)
      BY <2>2
    <3>2. ~Exists(call[s].attachment)
      BY <1>1, <3>1 DEF IInv, RequestsOK, RowGone, OnObject, deleteObject, cleanupObject, At
    <3> QED BY <1>1, <3>1, <3>2 DEF deleteObject, cleanupObject, getObjectPath
  <2>3. CASE \E b \in Attachment : putObject(b)
    BY <2>3 DEF putObject
  <2> QED BY <1>1, <2>1, <2>2, <2>3
          DEF Next, Tick, OneStatement, Files, Tickets, Fail, createAttachment, getValidPresignedUrl,
              delete, updateOrganization, presignedPutObject, presignedGetObject, storeUrl,
              deleteAttachment, writeOrganization, cleanupUnusedAttachments, cleanupRow,
              createTicket, addMessage, commitMessage, confirmUpload, updateTicketStatus, files, vars
<1>2. IInv /\ [Next]_vars =>
        [\A a \in Attachment :
           Exists(a) /\ Exists(a)' => \A n \in bucket : n[1] = a => n \in bucket']_vars
  BY <1>1
<1> QED BY <1>2, Invariance, PTL DEF Spec, ObjectsOutliveRows
=============================================================================

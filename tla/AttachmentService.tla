------------------------- MODULE AttachmentService -------------------------
(***************************************************************************)
(* Attachments: a row in the database and an object in a MinIO bucket,     *)
(* with no transaction over both.  The client uploads the object itself,   *)
(* with a presigned URL; a cron job removes rows nobody confirmed.         *)
(* Messages of tickets and organizations (their logo) refer to rows.       *)
(*                                                                         *)
(* Time advances by itself and is what new Date() and the bucket's clock   *)
(* show.                                                                   *)
(***************************************************************************)
EXTENDS Requests, Integers, FiniteSets

CONSTANTS
  Attachment,   \* identifiers of attachment rows
  Organization,
  Ticket,
  UploadLife,   \* how long an unconfirmed row is kept: 30 minutes
  PutLife,      \* how long a presigned PUT URL is good for
  Expiry,       \* how long a GET URL is good for: DEFAULT_EXPIRY, or
  PublicExpiry, \* AVATAR_EXPIRY, for avatars and logos
  Buffer,       \* how early a cached GET URL is renewed: 5 minutes
  MaxTime       \* bound on the clock

ASSUME AttachmentConstants ==
  /\ {UploadLife, PutLife, Expiry, PublicExpiry, Buffer, MaxTime} \subseteq Nat
  /\ Buffer < Expiry /\ Buffer < PublicExpiry

VARIABLES
  now,          \* the time
  attachment,   \* the attachments table
  used,         \* the identifiers drawn so far: a UUID is not drawn twice
  link,         \* message_attachments: <<ticket of the message, attachment>>
  logo,         \* organization.logoId
  bucket,       \* the objects stored, by name
  upload,       \* the presigned PUT URL of each attachment, once it is made
  served        \* the cached GET URL the last step returned, if it did

files == <<attachment, used, link, logo, bucket, upload>>

-----------------------------------------------------------------------------
(* Types. *)

Url == [until : Nat]   \* a presigned GET URL: when the bucket stops honouring it

AttachmentRow ==
  [public : BOOLEAN, isUploaded : BOOLEAN, expiresAt : Nat \cup {NULL},
   url : Url \cup {NULL}, urlExpiresAt : Nat \cup {NULL}]

(* An object has the name the file was given, or that and an extension.    *)
ObjectName == Attachment \X {"given", "extended"}

(* No value is mistaken for an absent one.                                 *)
ASSUME AttachmentNull == NULL \notin Attachment \cup Nat \cup Url \cup AttachmentRow

PutUrl == [name : ObjectName, until : Nat]

getObjectPath(a) == <<a, "given">>

(* StorageService.setFileExtension, for uploads only.                      *)
setFileExtension(a, bare) == <<a, IF bare THEN "extended" ELSE "given">>

Exists(a) == attachment[a] # NULL

(* Faulty variant: unconfirmed rows are found as well.                      *)
findAny(a) == Exists(a)

(* AttachmentService.findOne: rows that are confirmed.                     *)
findOne(a) == Exists(a) /\ attachment[a].isUploaded

Quiet == served' = {} /\ UNCHANGED now

(* A foreign key without ON DELETE refuses the DELETE; message_attachments *)
(* has ON DELETE CASCADE.                                                  *)
IsLogo(a) == \E o \in Organization : logo[o] = a

deleteRow(a) ==
  /\ attachment' = [attachment EXCEPT ![a] = NULL]
  /\ link' = {l \in link : l[2] # a}

-----------------------------------------------------------------------------
(* Uploading. *)

createAttachment(s, a, public, bare) ==
  /\ At(s, "idle")
  /\ a \notin used
  /\ used' = used \cup {a}
  /\ attachment' = [attachment EXCEPT ![a] =
       [public |-> public, isUploaded |-> FALSE, expiresAt |-> now + UploadLife,
        url |-> NULL, urlExpiresAt |-> NULL]]
  /\ Goto(s, "create.presign", [attachment |-> a, name |-> setFileExtension(a, bare)])
  /\ Quiet /\ UNCHANGED <<link, logo, bucket, upload>>

presignedPutObject(s) ==
  /\ At(s, "create.presign")
  /\ upload' = [upload EXCEPT ![call[s].attachment] =
                   [name |-> call[s].name, until |-> now + PutLife]]
  /\ Return(s)
  /\ Quiet /\ UNCHANGED <<used, attachment, link, logo, bucket>>

(* The client uploads, as often as it likes while the URL is good.         *)
putObject(a) ==
  /\ upload[a] # NULL /\ now <= upload[a].until
  /\ bucket' = bucket \cup {upload[a].name}
  /\ Quiet /\ UNCHANGED <<used, attachment, link, logo, upload, requests>>

Confirmed(a) == [attachment[a] EXCEPT !.isUploaded = TRUE, !.expiresAt = NULL]

(* confirmUpload of one id: one UPDATE.                                    *)
confirmUpload(a) ==
  /\ Exists(a)
  /\ attachment' = [attachment EXCEPT ![a] = Confirmed(a)]
  /\ Quiet /\ UNCHANGED <<used, link, logo, bucket, upload, requests>>

-----------------------------------------------------------------------------
(* Downloading: getValidPresignedUrl. *)

CacheValid(row) == row.url # NULL /\ row.urlExpiresAt > now + Buffer

ExpiryOf(row) == IF row.public THEN PublicExpiry ELSE Expiry

getValidPresignedUrl(s, a) ==
  LET row == attachment[a] IN
  /\ At(s, "idle")
  /\ findOne(a)
  /\ \/ /\ CacheValid(row)
        /\ served' = {row.url}
        /\ UNCHANGED requests
     \/ /\ ~CacheValid(row)
        /\ served' = {}
        /\ Goto(s, "url.presign",
                [attachment |-> a, at |-> now, expiry |-> ExpiryOf(row), url |-> NULL])
  /\ UNCHANGED <<now, files>>

presignedGetObject(s) ==
  /\ At(s, "url.presign")
  /\ Goto(s, "url.store", [call[s] EXCEPT !.url = [until |-> now + call[s].expiry]])
  /\ Quiet /\ UNCHANGED files

(* Faulty variant: the end of the new URL is counted from its storing.      *)
urlExpiresAtLate(s) == now + call[s].expiry

urlExpiresAt(s) == call[s].at + call[s].expiry

storeUrl(s) ==
  LET a == call[s].attachment IN
  /\ At(s, "url.store")
  /\ attachment' = [attachment EXCEPT ![a] =
       IF Exists(a)
       THEN [@ EXCEPT !.url = call[s].url, !.urlExpiresAt = urlExpiresAt(s)]
       ELSE @]
  /\ Return(s)
  /\ Quiet
  /\ UNCHANGED <<used, link, logo, bucket, upload>>

-----------------------------------------------------------------------------
(* Removing. *)

(* Faulty variant: the object goes first.                                   *)
deleteObjectFirst(s, a) ==
  /\ At(s, "idle")
  /\ Exists(a)
  /\ Goto(s, "delete.object", [attachment |-> a])
  /\ Quiet /\ UNCHANGED files

delete(s, a) ==
  /\ At(s, "idle")
  /\ Exists(a)
  /\ Goto(s, "delete.row", [attachment |-> a])
  /\ Quiet /\ UNCHANGED files

(* Nothing to delete, or still a logo: an error.                           *)
deleteAttachment(s) ==
  LET a == call[s].attachment IN
  /\ At(s, "delete.row")
  /\ \/ /\ Exists(a) /\ ~IsLogo(a)
        /\ deleteRow(a)
        /\ Goto(s, "delete.object", call[s])
     \/ /\ ~Exists(a) \/ IsLogo(a)
        /\ Return(s) /\ UNCHANGED <<attachment, link>>
  /\ Quiet /\ UNCHANGED <<used, logo, bucket, upload>>

deleteObject(s) ==
  /\ At(s, "delete.object")
  /\ bucket' = bucket \ {getObjectPath(call[s].attachment)}
  /\ Return(s)
  /\ Quiet /\ UNCHANGED <<used, attachment, link, logo, upload>>

(* The cron job.                                                           *)
Expired(a) ==
  /\ Exists(a) /\ ~attachment[a].isUploaded
  /\ attachment[a].expiresAt # NULL /\ attachment[a].expiresAt <= now

cleanupUnusedAttachments(s) ==
  LET expired == {a \in Attachment : Expired(a)} IN
  /\ At(s, "idle")
  /\ expired # {}
  /\ Goto(s, "cleanup.row", [todo |-> expired])
  /\ Quiet /\ UNCHANGED files

Continue(s, c) ==
  IF c.todo = {} THEN Return(s) ELSE Goto(s, "cleanup.row", c)

(* An error of the DELETE ends the job.                                    *)
cleanupRow(s) ==
  /\ At(s, "cleanup.row")
  /\ \E a \in call[s].todo :
       \/ /\ IsLogo(a)
          /\ Return(s) /\ UNCHANGED <<attachment, link>>
       \/ /\ ~IsLogo(a)
          /\ deleteRow(a)
          /\ Goto(s, "cleanup.object", [attachment |-> a, todo |-> call[s].todo \ {a}])
  /\ Quiet /\ UNCHANGED <<used, logo, bucket, upload>>

(* An error of the bucket is logged only.                                  *)
cleanupObject(s) ==
  /\ At(s, "cleanup.object")
  /\ bucket' \in {bucket, bucket \ {getObjectPath(call[s].attachment)}}
  /\ Continue(s, [todo |-> call[s].todo])
  /\ Quiet /\ UNCHANGED <<used, attachment, link, logo, upload>>

-----------------------------------------------------------------------------
(* OrganizationService.update with a logo: the row is looked up, then      *)
(* referenced; the foreign key wants it to exist.                          *)

updateOrganization(s, o, a) ==
  /\ At(s, "idle")
  /\ a # NULL => findOne(a)
  /\ Goto(s, "organization.update", [attachment |-> a, organization |-> o])
  /\ Quiet /\ UNCHANGED files

writeOrganization(s) ==
  LET a == call[s].attachment IN
  /\ At(s, "organization.update")
  /\ logo' = IF a = NULL \/ Exists(a)
             THEN [logo EXCEPT ![call[s].organization] = a] ELSE logo
  /\ Return(s)
  /\ Quiet /\ UNCHANGED <<used, attachment, link, bucket, upload>>
=============================================================================

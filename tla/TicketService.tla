--------------------------- MODULE TicketService ---------------------------
(***************************************************************************)
(* Support tickets: their status, and the attachments their messages link. *)
(* Adding a message confirms what it links, in one transaction; the status *)
(* it may change was read before the transaction.                          *)
(***************************************************************************)
EXTENDS AttachmentService

CONSTANT Status        \* TICKET_STATUS: "open", "closed", "resolved", others

ASSUME TicketConstants == {"open", "closed", "resolved"} \subseteq Status

VARIABLE ticket        \* the status of each ticket, NULL before it is created

vars == <<now, ticket, files, served, requests>>

-----------------------------------------------------------------------------
(* The links of a message and the confirmation of what they link.          *)

(* Faulty variant: what a message links is not confirmed.                   *)
LinkOnly(t, ids) ==
  /\ link' = link \cup ({t} \X ids)
  /\ attachment' = attachment

LinkAndConfirm(t, ids) ==
  /\ link' = link \cup ({t} \X ids)
  /\ attachment' = [a \in Attachment |->
                      IF a \in ids THEN Confirmed(a) ELSE attachment[a]]

(* The row is inserted by itself, the first message in a transaction later.*)
createTicket(s, t, ids) ==
  /\ At(s, "idle")
  /\ ticket[t] = NULL
  /\ ticket' = [ticket EXCEPT ![t] = "open"]
  /\ Goto(s, "ticket.message", [ticket |-> t, ids |-> ids, reopen |-> FALSE])
  /\ Quiet /\ UNCHANGED files

(* addMessage.  senderType is "user" or "admin".                           *)
addMessage(s, t, senderType, ids) ==
  /\ At(s, "idle")
  /\ ticket[t] # NULL
  /\ Goto(s, "ticket.message",
          [ticket |-> t, ids |-> ids,
           reopen |-> senderType = "user" /\ ticket[t] \in {"closed", "resolved"}])
  /\ Quiet /\ UNCHANGED <<ticket, files>>

(* The transaction: message, ticket, links, confirmation.  A link to a row *)
(* that is gone violates the foreign key and rolls it back.                *)
commitMessage(s) ==
  LET c == call[s] IN
  /\ At(s, "ticket.message")
  /\ \/ /\ \A a \in c.ids : Exists(a)
        /\ ticket' = [ticket EXCEPT ![c.ticket] = IF c.reopen THEN "open" ELSE @]
        /\ LinkAndConfirm(c.ticket, c.ids)
     \/ /\ \E a \in c.ids : ~Exists(a)
        /\ UNCHANGED <<ticket, link, attachment>>
  /\ Return(s)
  /\ Quiet /\ UNCHANGED <<used, logo, bucket, upload>>

(* updateTicketStatus: one transaction.                                    *)
updateTicketStatus(t, status) ==
  /\ ticket[t] # NULL
  /\ ticket' = [ticket EXCEPT ![t] = status]
  /\ Quiet /\ UNCHANGED <<files, requests>>

-----------------------------------------------------------------------------

Init ==
  /\ now = 0
  /\ attachment = [a \in Attachment |-> NULL]
  /\ used = {} /\ link = {} /\ bucket = {} /\ served = {}
  /\ logo = [o \in Organization |-> NULL]
  /\ upload = [a \in Attachment |-> NULL]
  /\ ticket = [t \in Ticket |-> NULL]
  /\ NoRequests

Tick ==
  /\ now < MaxTime /\ now' = now + 1
  /\ served' = {}
  /\ UNCHANGED <<ticket, files, requests>>

Fail(s) == Abort(s) /\ Quiet /\ UNCHANGED <<ticket, files>>

Files(s) ==
  /\ \/ \E a \in Attachment :
          \/ \E public, bare \in BOOLEAN : createAttachment(s, a, public, bare)
          \/ getValidPresignedUrl(s, a) \/ delete(s, a)
     \/ \E o \in Organization, a \in Attachment \cup {NULL} : updateOrganization(s, o, a)
     \/ presignedPutObject(s) \/ presignedGetObject(s) \/ storeUrl(s)
     \/ deleteAttachment(s) \/ deleteObject(s) \/ writeOrganization(s)
     \/ cleanupUnusedAttachments(s) \/ cleanupRow(s) \/ cleanupObject(s)
  /\ UNCHANGED ticket

Tickets(s) ==
  \/ \E t \in Ticket, ids \in SUBSET Attachment :
       \/ createTicket(s, t, ids)
       \/ \E senderType \in {"user", "admin"} : addMessage(s, t, senderType, ids)
  \/ commitMessage(s)

OneStatement ==
  \/ \E a \in Attachment : (putObject(a) \/ confirmUpload(a)) /\ UNCHANGED ticket
  \/ \E t \in Ticket, status \in Status : updateTicketStatus(t, status)

Next == Tick \/ OneStatement \/ \E s \in Session : Files(s) \/ Tickets(s) \/ Fail(s)

Spec == Init /\ [][Next]_vars

-----------------------------------------------------------------------------
(* Properties. *)

Label ==
  {"idle", "create.presign", "url.presign", "url.store", "delete.row",
   "delete.object", "cleanup.row", "cleanup.object", "organization.update",
   "ticket.message"}

TypeOK ==
  /\ now \in Nat
  /\ attachment \in [Attachment -> AttachmentRow \cup {NULL}]
  /\ used \subseteq Attachment /\ link \subseteq Ticket \X Attachment
  /\ logo \in [Organization -> Attachment \cup {NULL}]
  /\ bucket \subseteq ObjectName
  /\ upload \in [Attachment -> PutUrl \cup {NULL}]
  /\ served \subseteq Url
  /\ ticket \in [Ticket -> Status \cup {NULL}]
  /\ pc \in [Session -> Label]

(* addMessage, create: what a message links exists and is confirmed, so    *)
(* that no expiry and no cleaner is left to wait for; deletions and the    *)
(* cleaner run at the same time.                                           *)
LinksConfirmed ==
  \A l \in link : Exists(l[2]) /\ attachment[l[2]].isUploaded /\ attachment[l[2]].expiresAt = NULL

(* OrganizationService.update: a logo exists and is uploaded, although it  *)
(* is checked in one statement and referenced in a later one.              *)
LogoUploaded ==
  \A o \in Organization :
    logo[o] # NULL => Exists(logo[o]) /\ attachment[logo[o]].isUploaded

(* delete, cleanup: while the row of an attachment exists its object is    *)
(* not removed, wherever a request stops: a row goes first, its object     *)
(* afterwards.                                                             *)
ObjectsOutliveRows ==
  [][\A a \in Attachment :
       Exists(a) /\ Exists(a)' => \A n \in bucket : n[1] = a => n \in bucket']_vars

(* getValidPresignedUrl ('5 minutes buffer'): a cached URL it returns      *)
(* works for longer than the buffer still, in whatever order renewals that *)
(* overlap were presigned and stored.                                      *)
ServedUrlsWork == \A url \in served : url.until > now + Buffer

(* cleanupUnusedAttachments ('unused'): an attachment that is confirmed    *)
(* goes only when somebody asks to delete it.                              *)
ConfirmedKept ==
  [][\A a \in Attachment, s \in Session :
       Exists(a) /\ attachment[a].isUploaded /\ cleanupRow(s) => Exists(a)']_vars
=============================================================================

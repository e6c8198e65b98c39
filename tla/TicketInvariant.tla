-------------------------- MODULE TicketInvariant --------------------------
(***************************************************************************)
(* The inductive invariant of TicketService: what each request knows of    *)
(* the rows it has seen, and what of that outlives the awaits.             *)
(***************************************************************************)
EXTENDS TicketService

(* Steps that remove an object whose row has gone, and that make a URL.    *)
OnObject == {"delete.object", "cleanup.object"}
OnUrl == {"url.presign", "url.store"}

Download ==
  [attachment : Attachment, at : Nat, expiry : Nat, url : Url \cup {NULL}]

LocalsOK(s) == LET c == call[s] IN
  /\ pc[s] \in OnObject \cup {"create.presign", "delete.row"} => c.attachment \in Attachment
  /\ pc[s] = "create.presign" => c.name \in ObjectName
  /\ pc[s] \in OnUrl => c \in Download
  /\ pc[s] = "url.store" => c.url \in Url
  /\ pc[s] \in {"cleanup.row", "cleanup.object"} => c.todo \subseteq used
  /\ pc[s] = "organization.update" =>
       c.organization \in Organization /\ c.attachment \in Attachment \cup {NULL}
  /\ pc[s] = "ticket.message" =>
       c.ticket \in Ticket /\ c.ids \subseteq Attachment /\ c.reopen \in BOOLEAN

(* A request that removes an object knows that the row has gone, and since *)
(* identifiers are not drawn twice it does not come back.                  *)
RowGone(s) ==
  pc[s] \in OnObject => ~Exists(call[s].attachment) /\ call[s].attachment \in used

(* The logo a request is about to set was uploaded when it was looked up,  *)
(* and still is if the row is still there.                                 *)
LogoChecked(s) == LET a == call[s].attachment IN
  pc[s] = "organization.update" /\ a # NULL =>
    a \in used /\ (Exists(a) => attachment[a].isUploaded)

(* The end that is stored with a URL is counted from before the URL is     *)
(* presigned, so that it is never later than the bucket's.                 *)
CountedEarly(s) ==
  /\ pc[s] = "url.presign" => call[s].at <= now
  /\ pc[s] = "url.store" => urlExpiresAt(s) <= call[s].url.until

RequestsOK ==
  /\ pc = [s \in Session |-> pc[s]] /\ call = [s \in Session |-> call[s]]
  /\ \A s \in Session : LocalsOK(s) /\ RowGone(s) /\ LogoChecked(s) /\ CountedEarly(s)

(* No row has an identifier nobody has drawn. *)
FreshRows == \A a \in Attachment \ used : ~Exists(a)

CachesEarly ==
  \A a \in Attachment : LET row == attachment[a] IN
    Exists(a) /\ row.url # NULL => row.urlExpiresAt \in Nat /\ row.urlExpiresAt <= row.url.until

(* The inductive invariant. *)
IInv ==
  /\ TypeOK /\ RequestsOK /\ FreshRows
  /\ LinksConfirmed /\ LogoUploaded
  /\ ServedUrlsWork /\ CachesEarly
=============================================================================

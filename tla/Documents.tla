----------------------------- MODULE Documents -----------------------------
(***************************************************************************)
(* Documents, their versions and certificates:                             *)
(*   case-service/src/services/document.service.js, certificate.service.js *)
(*   and document.repository.js                                            *)
(* A document is a record whose bytes are an object in a store: uploaded   *)
(* through the service, which stores the object first, or by the client    *)
(* under a signed URL, which it confirms.  A new version is a document of  *)
(* its own whose upload retires the one it is based on, an await apart.    *)
(* Every update writes the status blindly, by id.  Scans, downloads, tags, *)
(* access logs, events and audit entries are left out, permissions too:    *)
(* who may do what does not depend on the status.                          *)
(***************************************************************************)
EXTENDS Integers, Sequences, FiniteSets

CONSTANTS
  Users,         \* requests in progress at a time
  UploadStatus,  \* "quarantined" under DOCUMENT_QUARANTINE_ON_UPLOAD, or "uploaded"
  MaxDocuments,  \* bound: documents
  MaxRequests,   \* bound: requests that touch an existing document
  MaxFaults      \* bound: failing calls and crashes

ASSUME DocumentsAssumption ==
  /\ UploadStatus \in {"uploaded", "quarantined"}
  /\ MaxDocuments \in Nat /\ MaxRequests \in Nat /\ MaxFaults \in Nat

Statuses == {"draft", "uploaded", "quarantined", "verified", "rejected", "superseded"}

VARIABLES
  docs,     \* the records, in the order of their creation
  stored,   \* documents whose object is in the store
  pc,       \* the await each request is at
  item,     \* the document it works on
  base,     \* the document a new version is based on, or 0
  issuing,  \* the requests that store a certificate
  settled,  \* history: versions whose upload went through to its end
  byHand,   \* history: documents retired by hand, or taken out of retirement
  requests, faults

request == <<pc, item, base, issuing>>
history == <<settled, byHand>>
vars == <<docs, stored, request, history, requests, faults>>

Ids == DOMAIN docs

\* findById finds every document: no route deletes one.
Root(d) == IF docs[d].parent = 0 THEN d ELSE docs[d].parent

\* Mutant: a version of a version hangs below that version.
BaseAsParent(b) == b

\* parentDocumentId: all versions hang below the first.
ParentOf(b) == IF b = 0 THEN 0 ELSE Root(b)

Family(r) == {d \in Ids : Root(d) = r}

TypeOK ==
  /\ docs \in Seq([status : Statuses, version : Nat \ {0}, parent : Nat, base : Nat,
                   by : Nat, certificate : BOOLEAN])
  /\ \A d \in Ids :
       /\ docs[d].parent < d /\ docs[d].base < d
       /\ docs[d].by \in {0} \cup Ids
       /\ docs[d].parent # 0 => docs[docs[d].parent].parent = 0
  /\ stored \subseteq Ids
  /\ pc \in [Users -> {"idle", "create", "scan", "supersede", "publish",
                       "confirm", "verify", "reject", "revoke"}]
  /\ item \in [Users -> {0} \cup Ids] /\ base \in [Users -> {0} \cup Ids]
  /\ issuing \subseteq Users
  /\ settled \subseteq Ids /\ byHand \subseteq Ids
  /\ requests \in 0..MaxRequests
  /\ faults \in 0..MaxFaults

Init ==
  /\ docs = << >> /\ stored = {}
  /\ pc = [u \in Users |-> "idle"]
  /\ item = [u \in Users |-> 0] /\ base = [u \in Users |-> 0]
  /\ issuing = {}
  /\ settled = {} /\ byHand = {}
  /\ requests = 0 /\ faults = 0

-----------------------------------------------------------------------------

Go(u, step, d) ==
  /\ pc' = [pc EXCEPT ![u] = step]
  /\ item' = [item EXCEPT ![u] = d]

\* The request was answered, or failed.
End(u) ==
  /\ Go(u, "idle", 0)
  /\ base' = [base EXCEPT ![u] = 0]
  /\ issuing' = issuing \ {u}

Ask == requests < MaxRequests /\ requests' = requests + 1

Room == Cardinality({u \in Users : pc[u] = "create"}) + Len(docs) < MaxDocuments

SetStatus(d, s) == docs' = [docs EXCEPT ![d].status = s]

\* A blind write takes a retired document back.
Revives(d) == byHand' = IF docs[d].status = "superseded" THEN byHand \cup {d} ELSE byHand

-----------------------------------------------------------------------------
(* createUploadIntent and confirmSignedUpload                              *)

\* The record is there before its object.
CreateUploadIntent(u) ==
  /\ pc[u] = "idle" /\ Room
  /\ docs' = Append(docs, [status |-> "draft", version |-> 1, parent |-> 0, base |-> 0,
                           by |-> 0, certificate |-> FALSE])
  /\ UNCHANGED <<stored, request, history, requests, faults>>

\* The client puts the object under the signed URL, sooner, later or never.
SignedUpload(d) ==
  /\ d \notin stored
  /\ stored' = stored \cup {d}
  /\ UNCHANGED <<docs, request, history, requests, faults>>

\* objectExists answers, and what it answered is acted upon later.
ConfirmSignedUpload(u, d) ==
  /\ pc[u] = "idle" /\ Ask
  /\ d \in stored
  /\ Go(u, "confirm", d)
  /\ UNCHANGED <<docs, stored, base, issuing, history, faults>>

Confirm(u) ==
  /\ pc[u] = "confirm"
  /\ SetStatus(item[u], UploadStatus)
  /\ Revives(item[u])
  /\ End(u)
  /\ UNCHANGED <<stored, settled, requests, faults>>

-----------------------------------------------------------------------------
(* uploadDocument, createNewVersion and storeCertificate                   *)

\* Mutant: the base document is retired before there is a new version.
UploadRetiring(u, b) ==
  /\ pc[u] = "idle" /\ Room
  /\ Go(u, "create", 0)
  /\ base' = [base EXCEPT ![u] = b]
  /\ IF b = 0 THEN UNCHANGED docs ELSE SetStatus(b, "superseded")
  /\ UNCHANGED <<stored, issuing, history, requests, faults>>

\* Reads the base document, and puts the object before there is a record.
UploadDocument(u, b) ==
  /\ pc[u] = "idle" /\ Room
  /\ Go(u, "create", 0)
  /\ base' = [base EXCEPT ![u] = b]
  /\ UNCHANGED <<docs, stored, issuing, history, requests, faults>>

StoreCertificate(u, b) ==
  /\ pc[u] = "idle" /\ Room
  /\ Go(u, "create", 0)
  /\ base' = [base EXCEPT ![u] = b]
  /\ issuing' = issuing \cup {u}
  /\ UNCHANGED <<docs, stored, history, requests, faults>>

\* A new version of any document is based on the first of the family.
CreateNewVersion(u, d) == UploadDocument(u, Root(d))

Create(u) ==
  LET b == base[u]
      d == Len(docs) + 1
  IN /\ pc[u] = "create"
     /\ docs' = Append(docs, [
          status |-> UploadStatus,
          version |-> IF b = 0 THEN 1 ELSE docs[b].version + 1,
          parent |-> ParentOf(b), base |-> b, by |-> 0,
          certificate |-> u \in issuing])
     /\ stored' = stored \cup {d}
     /\ Go(u, "scan", d)
     /\ UNCHANGED <<base, issuing, history, requests, faults>>

\* What follows the upload: the certificate's own update, or the answer.
Uploaded(u) ==
  /\ settled' = settled \cup {item[u]}
  /\ IF u \in issuing THEN Go(u, "publish", item[u]) /\ UNCHANGED <<base, issuing>>
                      ELSE End(u)

\* logDocumentAccess and requestScan write nothing that is modelled, but throw.
RequestScan(u) ==
  /\ pc[u] = "scan"
  /\ IF base[u] = 0 THEN Uploaded(u)
     ELSE Go(u, "supersede", item[u]) /\ UNCHANGED <<base, issuing, settled>>
  /\ UNCHANGED <<docs, stored, byHand, requests, faults>>

\* Mutant: the arguments of markSuperseded are swapped.
MarkSupersededSwapped(d, by) == docs' = [docs EXCEPT ![by].status = "superseded", ![by].by = d]

MarkSuperseded(d, by) == docs' = [docs EXCEPT ![d].status = "superseded", ![d].by = by]

Supersede(u) ==
  /\ pc[u] = "supersede"
  /\ MarkSuperseded(base[u], item[u])
  /\ Uploaded(u)
  /\ UNCHANGED <<stored, byHand, requests, faults>>

Publish(u) ==
  /\ pc[u] = "publish"
  /\ SetStatus(item[u], "verified")
  /\ Revives(item[u])
  /\ End(u)
  /\ UNCHANGED <<stored, settled, requests, faults>>

-----------------------------------------------------------------------------
(* verifyDocument, rejectDocument, supersedeDocument, revokeCertificate    *)

Load(u, d, step) ==
  /\ pc[u] = "idle" /\ Ask
  /\ step = "revoke" => docs[d].certificate
  /\ Go(u, step, d)
  /\ UNCHANGED <<docs, stored, base, issuing, history, faults>>

MarkVerified(u) ==
  /\ pc[u] = "verify"
  /\ SetStatus(item[u], "verified")
  /\ Revives(item[u])
  /\ End(u)
  /\ UNCHANGED <<stored, settled, requests, faults>>

MarkRejected(u) ==
  /\ pc[u] \in {"reject", "revoke"}
  /\ SetStatus(item[u], "rejected")
  /\ Revives(item[u])
  /\ End(u)
  /\ UNCHANGED <<stored, settled, requests, faults>>

\* The request names the successor; nobody looks whether it is one.
SupersedeDocument(u, d, by) ==
  /\ pc[u] = "idle" /\ Ask
  /\ MarkSuperseded(d, by)
  /\ byHand' = byHand \cup {d}
  /\ UNCHANGED <<stored, request, settled, faults>>

-----------------------------------------------------------------------------

\* A call throws, or the process dies: the request ends where it is.
Fail(u) ==
  /\ pc[u] # "idle"
  /\ faults < MaxFaults /\ faults' = faults + 1
  /\ End(u)
  /\ UNCHANGED <<docs, stored, history, requests>>

Request(u) ==
  \/ CreateUploadIntent(u)
  \/ \E b \in {0} \cup Ids : UploadDocument(u, b) \/ StoreCertificate(u, b)
  \/ \E d \in Ids :
       \/ CreateNewVersion(u, d) \/ ConfirmSignedUpload(u, d)
       \/ \E step \in {"verify", "reject", "revoke"} : Load(u, d, step)
       \/ \E by \in Ids : SupersedeDocument(u, d, by)

Continue(u) ==
  \/ Create(u) \/ RequestScan(u) \/ Supersede(u) \/ Publish(u)
  \/ Confirm(u) \/ MarkVerified(u) \/ MarkRejected(u)

Next ==
  \/ \E u \in Users : Request(u) \/ Continue(u) \/ Fail(u)
  \/ \E d \in Ids : SignedUpload(d)

Spec == Init /\ [][Next]_vars

-----------------------------------------------------------------------------

\* A version whose upload went through has retired the document it is based on,
\* in favour of itself or of another version of the same base, whatever uploads,
\* confirmations and decisions came in between: until somebody retires that
\* document by hand, or writes over its status (uploadDocument).
VersionRetiresItsBase ==
  \A d \in settled :
    LET b == docs[d].base
    IN b # 0 /\ b \notin byHand =>
         docs[b].status = "superseded" /\ docs[docs[b].by].base = b

\* However uploads of versions overlap, fail or die half-way, a document that has
\* not been touched by hand never leaves its family without a version that is not
\* superseded (uploadDocument retires the base after the new version exists).
FamilyKeepsAVersion ==
  \A r \in Ids :
    docs[r].parent = 0 /\ Family(r) \cap byHand = {} =>
      \E d \in Family(r) : docs[d].status # "superseded"
=============================================================================

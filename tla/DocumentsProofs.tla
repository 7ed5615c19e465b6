-------------------------- MODULE DocumentsProofs --------------------------
(***************************************************************************)
(* For any set of requests and any number of documents and failures:       *)
(* types, that a finished version has retired its base, and that no family *)
(* is left without a version in force.                                     *)
(***************************************************************************)
EXTENDS Documents, WellFoundedInduction, TLAPS

-----------------------------------------------------------------------------
(* Types                                                                   *)

Records == [status : Statuses, version : Nat \ {0}, parent : Nat, base : Nat,
            by : Nat, certificate : BOOLEAN]

\* What TypeOK says of the records beyond their fields.
WellFormed(ds) ==
  \A d \in DOMAIN ds :
    /\ ds[d].parent < d /\ ds[d].base < d
    /\ ds[d].by \in {0} \cup DOMAIN ds
    /\ ds[d].parent # 0 => ds[ds[d].parent].parent = 0

Awaits == {"idle", "create", "scan", "supersede", "publish",
           "confirm", "verify", "reject", "revoke"}

RequestType ==
  /\ pc \in [Users -> Awaits]
  /\ item \in [Users -> {0} \cup Ids] /\ base \in [Users -> {0} \cup Ids]
  /\ issuing \subseteq Users

RestType ==
  /\ stored \subseteq Ids
  /\ settled \subseteq Ids /\ byHand \subseteq Ids
  /\ requests \in 0..MaxRequests
  /\ faults \in 0..MaxFaults

\* A request that is past the record of its document, or that loaded one.
HasItem == \A u \in Users : pc[u] \notin {"idle", "create"} => item[u] \in Ids

\* A request about to retire the base of its document has both.
Based ==
  \A u \in Users :
    /\ pc[u] \in {"scan", "supersede"} => docs[item[u]].base = base[u]
    /\ pc[u] = "supersede" => base[u] # 0

DocType == docs \in Seq(Records) /\ WellFormed(docs)

TypeInv == DocType /\ RequestType /\ RestType /\ HasItem /\ Based

LEMMA TypeInvTells == TypeInv => TypeOK
BY DEF TypeInv, DocType, RequestType, RestType, TypeOK, Records, WellFormed, Awaits, Ids

\* What is known of a document.
LEMMA RecordOf ==
  ASSUME DocType, NEW d \in Ids
  PROVE  /\ d \in 1..Len(docs) /\ d \in Nat /\ d # 0
         /\ docs[d] \in Records
         /\ docs[d].parent \in 0..(d - 1) /\ docs[d].base \in 0..(d - 1)
         /\ docs[d].parent \in {0} \cup Ids /\ docs[d].base \in {0} \cup Ids
         /\ docs[d].by \in {0} \cup Ids
<1>1. docs \in Seq(Records) /\ Ids = 1..Len(docs) /\ Len(docs) \in Nat
  BY DEF DocType, Ids
<1>2. docs[d] \in Records /\ d \in 1..Len(docs)
  BY <1>1
<1>3. docs[d].parent \in Nat /\ docs[d].base \in Nat
  BY <1>2 DEF Records
<1>4. docs[d].parent < d /\ docs[d].base < d /\ docs[d].by \in {0} \cup Ids
  BY DEF DocType, WellFormed, Ids
<1> QED
  BY <1>1, <1>2, <1>3, <1>4

\* The records a step keeps: their number, and where they belong.
SameFamilies ==
  /\ Ids' = Ids /\ DocType'
  /\ \A x \in Ids : docs'[x].parent = docs[x].parent /\ docs'[x].base = docs[x].base

LEMMA Replaced ==
  ASSUME DocType, NEW d \in Ids, NEW r \in Records, docs' = [docs EXCEPT ![d] = r],
         r.parent = docs[d].parent, r.base = docs[d].base, r.by \in {0} \cup Ids
  PROVE  SameFamilies
<1>1. docs \in Seq(Records) /\ Ids = 1..Len(docs) /\ Len(docs) \in Nat /\ d \in 1..Len(docs)
  BY DEF DocType, Ids
<1>2. docs' \in Seq(Records) /\ Len(docs') = Len(docs) /\ DOMAIN docs' = Ids
  BY <1>1
<1>3. \A x \in Ids : docs'[x] = IF x = d THEN r ELSE docs[x]
  BY <1>1
<1>4. \A x \in Ids : docs'[x].parent = docs[x].parent /\ docs'[x].base = docs[x].base
  BY <1>3
<1>5. \A x \in Ids : docs'[x].by \in {0} \cup Ids
  BY <1>3, RecordOf
<1>6. ASSUME NEW x \in Ids, docs'[x].parent # 0
      PROVE  docs'[docs'[x].parent].parent = 0
  <2>1. docs[x].parent # 0 /\ docs[x].parent \in Ids /\ docs'[x].parent = docs[x].parent
    BY <1>4, <1>6, RecordOf
  <2>2. docs[docs[x].parent].parent = 0
    BY <2>1 DEF DocType, WellFormed, Ids
  <2> QED
    BY <1>4, <2>1, <2>2
<1>7. \A x \in Ids : docs'[x].parent < x /\ docs'[x].base < x
  BY <1>4 DEF DocType, WellFormed, Ids
<1>8. WellFormed(docs')
  BY <1>2, <1>5, <1>6, <1>7 DEF WellFormed, DocType
<1> QED
  BY <1>2, <1>4, <1>8 DEF SameFamilies, DocType, Ids

LEMMA SetStatusKeeps ==
  ASSUME DocType, NEW d \in Ids, NEW s \in Statuses, SetStatus(d, s)
  PROVE  SameFamilies
<1> DEFINE r == [docs[d] EXCEPT !.status = s]
<1>1. docs[d] \in Records /\ docs[d].by \in {0} \cup Ids
  BY RecordOf
<1>2. r \in Records /\ r.parent = docs[d].parent /\ r.base = docs[d].base /\ r.by = docs[d].by
  BY <1>1 DEF Records
<1>3. docs' = [docs EXCEPT ![d] = r]
  BY DEF SetStatus
<1> QED
  BY <1>1, <1>2, <1>3, Replaced

LEMMA MarkSupersededKeeps ==
  ASSUME DocType, NEW d \in Ids, NEW by \in Ids, MarkSuperseded(d, by)
  PROVE  SameFamilies
<1> DEFINE r == [[docs[d] EXCEPT !.status = "superseded"] EXCEPT !.by = by]
<1>1. docs[d] \in Records /\ by \in Nat
  BY RecordOf
<1>2. r \in Records /\ r.parent = docs[d].parent /\ r.base = docs[d].base /\ r.by = by
  BY <1>1 DEF Records, Statuses
<1>3. docs' = [docs EXCEPT ![d] = r]
  <2>1. docs \in Seq(Records) /\ d \in DOMAIN docs
    BY DEF DocType, Ids
  <2> QED
    BY <2>1 DEF MarkSuperseded
<1> QED
  BY <1>2, <1>3, Replaced

LEMMA AppendKeeps ==
  ASSUME DocType, NEW r \in Records, docs' = Append(docs, r),
         r.parent \in {0} \cup Ids, r.base \in {0} \cup Ids, r.by = 0,
         r.parent # 0 => docs[r.parent].parent = 0
  PROVE  /\ DocType'
         /\ Ids' = Ids \cup {Len(docs) + 1} /\ Len(docs) + 1 \notin Ids
         /\ \A x \in Ids : docs'[x] = docs[x]
         /\ docs'[Len(docs) + 1] = r
<1> DEFINE n == Len(docs) + 1
<1>1. docs \in Seq(Records) /\ Ids = 1..Len(docs) /\ Len(docs) \in Nat
  BY DEF DocType, Ids
<1>2. docs' \in Seq(Records) /\ DOMAIN docs' = Ids \cup {n} /\ n \notin Ids
  BY <1>1
<1>3. (\A x \in Ids : docs'[x] = docs[x]) /\ docs'[n] = r
  BY <1>1
<1>4. ASSUME NEW x \in Ids
      PROVE  /\ docs'[x].parent < x /\ docs'[x].base < x
             /\ docs'[x].by \in {0} \cup DOMAIN docs'
             /\ docs'[x].parent # 0 => docs'[docs'[x].parent].parent = 0
  <2>1. docs[x].parent < x /\ docs[x].base < x /\ docs[x].by \in {0} \cup Ids
        /\ docs[x].parent \in {0} \cup Ids
    BY RecordOf DEF DocType, WellFormed, Ids
  <2>2. docs[x].parent # 0 => docs[docs[x].parent].parent = 0
    BY DEF DocType, WellFormed, Ids
  <2> QED
    BY <1>2, <1>3, <2>1, <2>2
<1>5. /\ docs'[n].parent < n /\ docs'[n].base < n
      /\ docs'[n].by \in {0} \cup DOMAIN docs'
      /\ docs'[n].parent # 0 => docs'[docs'[n].parent].parent = 0
  <2>1. r.parent < n /\ r.base < n /\ r.by = 0
    BY <1>1
  <2>2. r.parent # 0 => docs'[r.parent].parent = 0
    BY <1>3
  <2> QED
    BY <1>3, <2>1, <2>2
<1>6. WellFormed(docs')
  <2> SUFFICES ASSUME NEW x \in DOMAIN docs'
               PROVE  /\ docs'[x].parent < x /\ docs'[x].base < x
                      /\ docs'[x].by \in {0} \cup DOMAIN docs'
                      /\ docs'[x].parent # 0 => docs'[docs'[x].parent].parent = 0
    BY DEF WellFormed
  <2>1. x \in Ids \/ x = n
    BY <1>2
  <2> QED
    BY <1>4, <1>5, <2>1
<1> QED
  BY <1>2, <1>3, <1>6 DEF DocType, Ids

\* All versions of a family hang below one document, which hangs below none.
LEMMA RootOf ==
  ASSUME DocType, NEW d \in Ids
  PROVE  Root(d) \in Ids /\ docs[Root(d)].parent = 0
<1>1. docs[d].parent \in {0} \cup Ids
  BY RecordOf
<1>2. docs[d].parent # 0 => docs[docs[d].parent].parent = 0
  BY DEF DocType, WellFormed, Ids
<1> QED
  BY <1>1, <1>2 DEF Root

-----------------------------------------------------------------------------

\* The document a request creates, and what it hangs below.
Created(u) ==
  LET b == base[u]
  IN [status |-> UploadStatus,
      version |-> IF b = 0 THEN 1 ELSE docs[b].version + 1,
      parent |-> ParentOf(b), base |-> b, by |-> 0,
      certificate |-> u \in issuing]

LEMMA CreatedFits ==
  ASSUME TypeInv, NEW u \in Users
  PROVE  /\ Created(u) \in Records
         /\ Created(u).parent \in {0} \cup Ids /\ Created(u).base \in {0} \cup Ids
         /\ Created(u).base = base[u] /\ Created(u).by = 0
         /\ Created(u).parent = ParentOf(base[u])
         /\ Created(u).parent # 0 => docs[Created(u).parent].parent = 0
<1>1. base[u] \in {0} \cup Ids /\ DocType
  BY DEF TypeInv, RequestType
<1>2. ParentOf(base[u]) \in {0} \cup Ids
  BY <1>1, RootOf DEF ParentOf
<1>3. ParentOf(base[u]) # 0 => docs[ParentOf(base[u])].parent = 0
  BY <1>1, RootOf DEF ParentOf
<1>4. base[u] # 0 => docs[base[u]].version \in Nat \ {0}
  BY <1>1, RecordOf DEF Records
<1>5. {0} \cup Ids \subseteq Nat
  BY <1>1, RecordOf
<1>6. UploadStatus \in Statuses
  BY DocumentsAssumption DEF Statuses
<1>7. (IF base[u] = 0 THEN 1 ELSE docs[base[u]].version + 1) \in Nat \ {0}
  BY <1>4
<1> QED
  BY <1>1, <1>2, <1>3, <1>5, <1>6, <1>7 DEF Created, Records

\* A request goes on to a step, with a document and a base that fit it, and
\* the documents stay where they belong.
Continues(u, step, d, b) ==
  /\ Go(u, step, d)
  /\ base' = [base EXCEPT ![u] = b]
  /\ issuing' \subseteq Users
  /\ step \notin {"idle", "create"} => d \in Ids
  /\ step \in {"scan", "supersede"} => docs[d].base = b
  /\ step = "supersede" => b # 0

LEMMA ContinuesKeeps ==
  ASSUME TypeInv, SameFamilies, RestType',
         NEW u \in Users, NEW step \in Awaits, NEW d \in {0} \cup Ids, NEW b \in {0} \cup Ids,
         Continues(u, step, d, b)
  PROVE  TypeInv'
<1>1. DocType' /\ Ids' = Ids
  BY DEF SameFamilies
<1>2. /\ pc \in [Users -> Awaits] /\ item \in [Users -> {0} \cup Ids]
      /\ base \in [Users -> {0} \cup Ids]
  BY DEF TypeInv, RequestType
<1>3. /\ pc' = [pc EXCEPT ![u] = step] /\ item' = [item EXCEPT ![u] = d]
      /\ base' = [base EXCEPT ![u] = b] /\ issuing' \subseteq Users
  BY DEF Continues, Go
<1>4. RequestType'
  BY <1>1, <1>2, <1>3 DEF RequestType
<1>5. HasItem'
  BY <1>1, <1>2, <1>3 DEF HasItem, TypeInv, Continues
<1>6. ASSUME NEW v \in Users
      PROVE  /\ pc'[v] \in {"scan", "supersede"} => docs'[item'[v]].base = base'[v]
             /\ pc'[v] = "supersede" => base'[v] # 0
  <2>1. CASE v = u
    <3>1. pc'[v] = step /\ item'[v] = d /\ base'[v] = b
      BY <1>2, <1>3, <2>1
    <3>2. step \in {"scan", "supersede"} => d \in Ids /\ docs[d].base = b
      BY DEF Continues
    <3> QED
      BY <3>1, <3>2 DEF SameFamilies, Continues
  <2>2. CASE v # u
    <3>1. pc'[v] = pc[v] /\ item'[v] = item[v] /\ base'[v] = base[v]
      BY <1>2, <1>3, <2>2
    <3>2. pc[v] \in {"scan", "supersede"} => item[v] \in Ids /\ docs[item[v]].base = base[v]
      BY DEF TypeInv, HasItem, Based
    <3> QED
      BY <3>1, <3>2 DEF TypeInv, SameFamilies, Based
  <2> QED
    BY <2>1, <2>2
<1> QED
  BY <1>1, <1>4, <1>5, <1>6 DEF TypeInv, Based

LEMMA Untouched ==
  ASSUME TypeInv, UNCHANGED docs
  PROVE  SameFamilies
BY DEF TypeInv, SameFamilies, DocType, WellFormed, Ids

\* The answer to a request leaves it without document or base.
LEMMA EndContinues ==
  ASSUME TypeInv, NEW u \in Users, End(u)
  PROVE  Continues(u, "idle", 0, 0)
BY DEF TypeInv, RequestType, End, Continues

\* A request that keeps its base.
LEMMA GoContinues ==
  ASSUME TypeInv, NEW u \in Users, NEW step, NEW d,
         Go(u, step, d), UNCHANGED <<base, issuing>>,
         step \notin {"idle", "create"} => d \in Ids,
         step \in {"scan", "supersede"} => docs[d].base = base[u],
         step = "supersede" => base[u] # 0
  PROVE  Continues(u, step, d, base[u])
<1>1. base \in [Users -> {0} \cup Ids] /\ issuing \subseteq Users
  BY DEF TypeInv, RequestType
<1>2. base' = [base EXCEPT ![u] = base[u]]
  BY <1>1
<1> QED
  BY <1>1, <1>2 DEF Continues

\* The document and base a request holds.
LEMMA InHand ==
  ASSUME TypeInv, NEW u \in Users
  PROVE  /\ pc[u] \notin {"idle", "create"} => item[u] \in Ids
         /\ item[u] \in {0} \cup Ids /\ base[u] \in {0} \cup Ids
         /\ pc[u] \in {"scan", "supersede"} => docs[item[u]].base = base[u]
         /\ pc[u] = "supersede" => base[u] # 0 /\ base[u] \in Ids
         /\ pc[u] \in Awaits
BY DEF TypeInv, RequestType, HasItem, Based

LEMMA UploadedContinues ==
  ASSUME TypeInv, NEW u \in Users, pc[u] \in {"scan", "supersede"}, Uploaded(u)
  PROVE  \E step \in Awaits, d \in {0} \cup Ids, b \in {0} \cup Ids :
           Continues(u, step, d, b)
<1>1. item[u] \in Ids /\ base[u] \in {0} \cup Ids
  BY InHand
<1>2. CASE u \in issuing
  <2>1. Go(u, "publish", item[u]) /\ UNCHANGED <<base, issuing>>
    BY <1>2 DEF Uploaded
  <2>2. Continues(u, "publish", item[u], base[u])
    BY <1>1, <2>1, GoContinues
  <2> QED
    BY <1>1, <2>2 DEF Awaits
<1>3. CASE u \notin issuing
  <2>1. Continues(u, "idle", 0, 0)
    BY <1>3, EndContinues DEF Uploaded
  <2> QED
    BY <2>1 DEF Awaits
<1> QED
  BY <1>2, <1>3

LEMMA DocumentsTypeInit == Init => TypeInv
BY DocumentsAssumption DEF Init, TypeInv, DocType, WellFormed, RequestType, RestType,
                           HasItem, Based, Awaits, Ids

\* A request starts.
LEMMA RequestTypeStep ==
  ASSUME TypeInv, NEW u \in Users, Request(u)
  PROVE  TypeInv'
<1>1. ASSUME CreateUploadIntent(u) PROVE TypeInv'
  <2> DEFINE r == [status |-> "draft", version |-> 1, parent |-> 0, base |-> 0,
                   by |-> 0, certificate |-> FALSE]
  <2>1. r \in Records /\ docs' = Append(docs, r) /\ DocType
    BY <1>1 DEF CreateUploadIntent, Records, Statuses, TypeInv
  <2>2. /\ DocType' /\ Ids' = Ids \cup {Len(docs) + 1}
        /\ \A x \in Ids : docs'[x] = docs[x]
    BY <2>1, AppendKeeps
  <2>3. UNCHANGED <<stored, pc, item, base, issuing, settled, byHand, requests, faults>>
    BY <1>1 DEF CreateUploadIntent, request, history
  <2> QED
    BY <2>2, <2>3 DEF TypeInv, RequestType, RestType, HasItem, Based
<1>2. ASSUME NEW b \in {0} \cup Ids, UploadDocument(u, b) PROVE TypeInv'
  <2>1. SameFamilies /\ RestType'
    BY <1>2, Untouched DEF UploadDocument, TypeInv, RestType, history, Ids
  <2>2. Continues(u, "create", 0, b)
    BY <1>2 DEF UploadDocument, Continues, TypeInv, RequestType
  <2> QED
    BY <2>1, <2>2, ContinuesKeeps DEF Awaits
<1>3. ASSUME NEW b \in {0} \cup Ids, StoreCertificate(u, b) PROVE TypeInv'
  <2>1. SameFamilies /\ RestType'
    BY <1>3, Untouched DEF StoreCertificate, TypeInv, RestType, history, Ids
  <2>2. Continues(u, "create", 0, b)
    BY <1>3 DEF StoreCertificate, Continues, TypeInv, RequestType
  <2> QED
    BY <2>1, <2>2, ContinuesKeeps DEF Awaits
<1>4. ASSUME NEW d \in Ids, CreateNewVersion(u, d) PROVE TypeInv'
  BY <1>2, <1>4, RootOf DEF CreateNewVersion, TypeInv
<1>5. ASSUME NEW d \in Ids, NEW step \in {"confirm", "verify", "reject", "revoke"},
             Ask, Go(u, step, d), UNCHANGED <<docs, stored, base, issuing, history, faults>>
      PROVE  TypeInv'
  <2>1. SameFamilies /\ RestType'
    BY <1>5, Untouched, DocumentsAssumption DEF Ask, TypeInv, RestType, history, Ids
  <2>2. Continues(u, step, d, base[u])
    BY <1>5, GoContinues
  <2>3. step \in Awaits /\ base[u] \in {0} \cup Ids /\ d \in {0} \cup Ids
    BY <1>5, InHand DEF Awaits
  <2> QED
    BY <2>1, <2>2, <2>3, ContinuesKeeps
<1>6. ASSUME NEW d \in Ids, NEW by \in Ids, SupersedeDocument(u, d, by) PROVE TypeInv'
  <2>1. SameFamilies
    BY <1>6, MarkSupersededKeeps DEF SupersedeDocument, TypeInv
  <2>2. UNCHANGED <<stored, pc, item, base, issuing, settled, faults>>
        /\ byHand' = byHand \cup {d} /\ requests' \in 0..MaxRequests
    BY <1>6, DocumentsAssumption DEF SupersedeDocument, Ask, request, TypeInv, RestType
  <2>3. base[u] \in {0} \cup Ids /\ item[u] \in {0} \cup Ids /\ pc[u] \in Awaits
    BY InHand
  <2>4. RestType'
    BY <2>1, <2>2 DEF TypeInv, RestType, SameFamilies
  <2>5. Continues(u, pc[u], item[u], base[u])
    BY <2>2, InHand DEF Continues, Go, TypeInv, RequestType
  <2> QED
    BY <2>1, <2>3, <2>4, <2>5, ContinuesKeeps
<1>7. ASSUME NEW d \in Ids, ConfirmSignedUpload(u, d) PROVE TypeInv'
  BY <1>5, <1>7 DEF ConfirmSignedUpload
<1>8. ASSUME NEW d \in Ids, NEW step \in {"verify", "reject", "revoke"}, Load(u, d, step)
      PROVE  TypeInv'
  BY <1>5, <1>8 DEF Load
<1> QED
  BY <1>1, <1>2, <1>3, <1>4, <1>6, <1>7, <1>8 DEF Request

\* A request goes on, or fails.
LEMMA ContinueTypeStep ==
  ASSUME TypeInv, NEW u \in Users, Continue(u) \/ Fail(u)
  PROVE  TypeInv'
<1> USE DEF TypeInv
<1>1. ASSUME Create(u) PROVE TypeInv'
  <2> DEFINE n == Len(docs) + 1
  <2>1. docs' = Append(docs, Created(u))
    BY <1>1 DEF Create, Created
  <2>2. /\ DocType' /\ Ids' = Ids \cup {n}
        /\ \A x \in Ids : docs'[x] = docs[x]
        /\ docs'[n].base = base[u]
    BY <2>1, CreatedFits, AppendKeeps
  <2>3. /\ pc' = [pc EXCEPT ![u] = "scan"] /\ item' = [item EXCEPT ![u] = n]
        /\ stored' = stored \cup {n}
        /\ UNCHANGED <<base, issuing, settled, byHand, requests, faults>>
    BY <1>1 DEF Create, Go, history
  <2>4. RequestType' /\ RestType'
    BY <2>2, <2>3 DEF RequestType, RestType, Awaits
  <2>5. HasItem'
    BY <2>2, <2>3 DEF RequestType, HasItem
  <2>6. Based'
    BY <2>2, <2>3 DEF RequestType, HasItem, Based
  <2> QED
    BY <2>2, <2>4, <2>5, <2>6
<1>2. ASSUME RequestScan(u) PROVE TypeInv'
  <2>1. SameFamilies
    BY <1>2, Untouched DEF RequestScan
  <2>2. item[u] \in Ids /\ docs[item[u]].base = base[u] /\ base[u] \in {0} \cup Ids
    BY <1>2, InHand DEF RequestScan
  <2>3. CASE base[u] = 0
    <3>1. Uploaded(u)
      BY <1>2, <2>3 DEF RequestScan
    <3>2. RestType'
      BY <1>2, <2>1, <2>2, <3>1 DEF RequestScan, Uploaded, RestType, SameFamilies
    <3> QED
      BY <1>2, <2>1, <3>1, <3>2, UploadedContinues, ContinuesKeeps DEF RequestScan
  <2>4. CASE base[u] # 0
    <3>1. RestType'
      BY <1>2, <2>1, <2>4 DEF RequestScan, RestType, SameFamilies
    <3>2. Go(u, "supersede", item[u]) /\ UNCHANGED <<base, issuing>>
      BY <1>2, <2>4 DEF RequestScan
    <3>3. Continues(u, "supersede", item[u], base[u])
      BY <2>2, <2>4, <3>2, GoContinues
    <3> QED
      BY <2>1, <2>2, <3>1, <3>3, ContinuesKeeps DEF Awaits
  <2> QED
    BY <2>3, <2>4
<1>3. ASSUME Supersede(u) PROVE TypeInv'
  <2>1. item[u] \in Ids /\ base[u] \in Ids /\ Uploaded(u)
    BY <1>3, InHand DEF Supersede
  <2>2. SameFamilies
    BY <1>3, <2>1, MarkSupersededKeeps DEF Supersede
  <2>3. RestType'
    BY <1>3, <2>1, <2>2 DEF Supersede, Uploaded, RestType, SameFamilies
  <2> QED
    BY <1>3, <2>1, <2>2, <2>3, UploadedContinues, ContinuesKeeps DEF Supersede
<1>4. ASSUME NEW s \in Statuses, item[u] \in Ids, SetStatus(item[u], s), Revives(item[u]),
             End(u), UNCHANGED <<stored, settled, requests, faults>>
      PROVE  TypeInv'
  <2>1. SameFamilies
    BY <1>4, SetStatusKeeps
  <2>2. RestType'
    BY <1>4, <2>1 DEF Revives, RestType, SameFamilies
  <2> QED
    BY <1>4, <2>1, <2>2, EndContinues, ContinuesKeeps DEF Awaits
<1>5. ASSUME Publish(u) \/ MarkVerified(u) \/ MarkRejected(u) \/ Confirm(u) PROVE TypeInv'
  <2>1. item[u] \in Ids
    BY <1>5, InHand DEF Publish, MarkVerified, MarkRejected, Confirm
  <2>2. UploadStatus \in Statuses /\ "verified" \in Statuses /\ "rejected" \in Statuses
    BY DocumentsAssumption DEF Statuses
  <2> QED
    BY <1>4, <1>5, <2>1, <2>2 DEF Publish, MarkVerified, MarkRejected, Confirm
<1>6. ASSUME Fail(u) PROVE TypeInv'
  <2>1. SameFamilies
    BY <1>6, Untouched DEF Fail
  <2>2. RestType'
    BY <1>6, <2>1, DocumentsAssumption DEF Fail, RestType, SameFamilies, history
  <2> QED
    BY <1>6, <2>1, <2>2, EndContinues, ContinuesKeeps DEF Fail, Awaits
<1> QED
  BY <1>1, <1>2, <1>3, <1>5, <1>6 DEF Continue

LEMMA DocumentsTypeStep == TypeInv /\ [Next]_vars => TypeInv'
<1> SUFFICES ASSUME TypeInv, [Next]_vars PROVE TypeInv'
  OBVIOUS
<1>1. ASSUME NEW d \in Ids, SignedUpload(d) PROVE TypeInv'
  BY <1>1 DEF SignedUpload, TypeInv, DocType, RequestType, RestType, HasItem, Based,
              request, history, Ids
<1>2. ASSUME UNCHANGED vars PROVE TypeInv'
  BY <1>2 DEF vars, TypeInv, DocType, RequestType, RestType, HasItem, Based,
              request, history, Ids
<1> QED
  BY <1>1, <1>2, RequestTypeStep, ContinueTypeStep DEF Next

\* Records, versions and requests keep their types: no version hangs below a
\* version, and a request past the record of its document has one.
THEOREM DocumentsTypeCorrect == Spec => []TypeOK
<1>1. Spec => []TypeInv
  BY DocumentsTypeInit, DocumentsTypeStep, PTL DEF Spec
<1> QED
  BY <1>1, TypeInvTells, PTL

-----------------------------------------------------------------------------
(* A version retires its base                                              *)

\* A document that was left to the uploads is in force, or retired in favour of
\* a version of its own.
Marked ==
  \A d \in Ids :
    d \notin byHand =>
      \/ docs[d].status # "superseded" /\ docs[d].by = 0
      \/ /\ docs[d].status = "superseded" /\ docs[d].by \in Ids
         /\ docs[docs[d].by].base = d

\* The base of a finished version has a successor.
Retired ==
  \A d \in settled :
    docs[d].base # 0 /\ docs[d].base \notin byHand => docs[docs[d].base].by # 0

\* A version is of the family of its base.
Rooted == \A d \in Ids : docs[d].base # 0 => Root(d) = Root(docs[d].base)

VersionInv == Marked /\ Retired /\ Rooted

\* What is written, and that the rest stays.
LEMMA StatusWritten ==
  ASSUME DocType, NEW d \in Ids, NEW s \in Statuses, SetStatus(d, s)
  PROVE  /\ docs'[d].status = s /\ docs'[d].by = docs[d].by
         /\ \A x \in Ids : x # d => docs'[x] = docs[x]
<1>1. docs \in Seq(Records) /\ d \in DOMAIN docs /\ docs[d] \in Records
  BY RecordOf DEF DocType, Ids
<1>2. docs' = [docs EXCEPT ![d].status = s]
  BY DEF SetStatus
<1> QED
  BY <1>1, <1>2 DEF Records, Ids

LEMMA RetirementWritten ==
  ASSUME DocType, NEW d \in Ids, NEW by \in Ids, MarkSuperseded(d, by)
  PROVE  /\ docs'[d].status = "superseded" /\ docs'[d].by = by
         /\ \A x \in Ids : x # d => docs'[x] = docs[x]
<1>1. docs \in Seq(Records) /\ d \in DOMAIN docs /\ docs[d] \in Records
  BY RecordOf DEF DocType, Ids
<1>2. docs' = [docs EXCEPT ![d].status = "superseded", ![d].by = by]
  BY DEF MarkSuperseded
<1> QED
  BY <1>1, <1>2 DEF Records, Ids

LEMMA RootedKept ==
  ASSUME TypeInv, Rooted, SameFamilies
  PROVE  Rooted'
<1> SUFFICES ASSUME NEW d \in Ids, docs'[d].base # 0
             PROVE  Root(d)' = Root(docs[d].base)'
  BY DEF Rooted, SameFamilies
<1>1. /\ docs'[d].base = docs[d].base /\ docs'[d].parent = docs[d].parent
      /\ docs[d].base \in Ids
  BY RecordOf DEF TypeInv, SameFamilies
<1>2. docs'[docs[d].base].parent = docs[docs[d].base].parent
  BY <1>1 DEF SameFamilies
<1>3. Root(d) = Root(docs[d].base)
  BY <1>1 DEF Rooted
<1> QED
  BY <1>1, <1>2, <1>3 DEF Root

LEMMA StatusKeepsVersions ==
  ASSUME TypeInv, VersionInv, NEW d \in Ids, NEW s \in Statuses \ {"superseded"},
         SetStatus(d, s), Revives(d), UNCHANGED settled
  PROVE  VersionInv'
<1>1. SameFamilies
  BY SetStatusKeeps DEF TypeInv
<1>2. /\ docs'[d].status = s /\ docs'[d].by = docs[d].by
      /\ \A x \in Ids : x # d => docs'[x] = docs[x]
  BY StatusWritten DEF TypeInv
<1>3. byHand \subseteq byHand' /\ (docs[d].status = "superseded" => d \in byHand')
  BY DEF Revives
<1>4. Marked'
  BY <1>1, <1>2, <1>3 DEF Marked, VersionInv, SameFamilies
<1>5. Retired'
  <2> SUFFICES ASSUME NEW x \in settled, docs'[x].base # 0, docs'[x].base \notin byHand'
               PROVE  docs'[docs'[x].base].by # 0
    BY DEF Retired
  <2>1. x \in Ids /\ docs'[x].base = docs[x].base /\ docs[x].base \in Ids
    BY <1>1, RecordOf DEF TypeInv, RestType, SameFamilies
  <2>2. docs[docs[x].base].by # 0
    BY <1>3, <2>1 DEF Retired, VersionInv
  <2> QED
    BY <1>2, <2>1, <2>2
<1> QED
  BY <1>1, <1>4, <1>5, RootedKept DEF VersionInv

\* A new record retires nothing.
LEMMA AppendKeepsVersions ==
  ASSUME TypeInv, VersionInv, NEW r \in Records, docs' = Append(docs, r),
         r.parent = ParentOf(r.base), r.base \in {0} \cup Ids, r.by = 0,
         r.status # "superseded", UNCHANGED <<settled, byHand>>
  PROVE  VersionInv'
<1> DEFINE n == Len(docs) + 1
<1>1. r.parent \in {0} \cup Ids /\ (r.parent # 0 => docs[r.parent].parent = 0)
  BY RootOf DEF ParentOf, TypeInv
<1>2. /\ Ids' = Ids \cup {n} /\ n \notin Ids
      /\ \A x \in Ids : docs'[x] = docs[x]
      /\ docs'[n] = r
  BY <1>1, AppendKeeps DEF TypeInv
<1>3. Marked'
  <2> SUFFICES ASSUME NEW d \in Ids', d \notin byHand
               PROVE  \/ docs'[d].status # "superseded" /\ docs'[d].by = 0
                      \/ /\ docs'[d].status = "superseded" /\ docs'[d].by \in Ids'
                         /\ docs'[docs'[d].by].base = d
    BY DEF Marked
  <2>1. CASE d = n
    BY <1>2, <2>1
  <2>2. CASE d \in Ids
    <3>1. docs'[d] = docs[d]
      BY <1>2, <2>2
    <3>2. \/ docs[d].status # "superseded" /\ docs[d].by = 0
          \/ /\ docs[d].status = "superseded" /\ docs[d].by \in Ids
             /\ docs[docs[d].by].base = d
      BY <2>2 DEF Marked, VersionInv
    <3>3. docs[d].by \in Ids => docs[d].by \in Ids' /\ docs'[docs[d].by] = docs[docs[d].by]
      BY <1>2
    <3> QED
      BY <3>1, <3>2, <3>3
  <2> QED
    BY <1>2, <2>1, <2>2
<1>4. Retired'
  <2> SUFFICES ASSUME NEW x \in settled, docs'[x].base # 0, docs'[x].base \notin byHand
               PROVE  docs'[docs'[x].base].by # 0
    BY DEF Retired
  <2>1. x \in Ids /\ docs'[x] = docs[x] /\ docs[x].base \in Ids
    BY <1>2, RecordOf DEF TypeInv, RestType
  <2> QED
    BY <1>2, <2>1 DEF Retired, VersionInv
<1>5. Rooted'
  <2> SUFFICES ASSUME NEW d \in Ids', docs'[d].base # 0
               PROVE  Root(d)' = Root(docs[d].base)'
    BY DEF Rooted
  <2>1. CASE d = n
    <3>1. r.base \in Ids /\ docs'[n].parent = Root(r.base) /\ docs'[d].base = r.base
      BY <1>2, <2>1 DEF ParentOf
    <3>2. Root(r.base) \in Ids /\ 0 \notin Ids
      BY <3>1, RootOf, RecordOf DEF TypeInv
    <3>3. docs'[r.base].parent = docs[r.base].parent
      BY <1>2, <3>1
    <3> QED
      BY <2>1, <3>1, <3>2, <3>3 DEF Root
  <2>2. CASE d \in Ids
    <3>1. docs'[d] = docs[d] /\ docs[d].base \in Ids /\ Root(d) = Root(docs[d].base)
      BY <1>2, <2>2, RecordOf DEF TypeInv, Rooted, VersionInv
    <3>2. docs'[docs[d].base] = docs[docs[d].base]
      BY <1>2, <3>1
    <3> QED
      BY <3>1, <3>2 DEF Root
  <2> QED
    BY <1>2, <2>1, <2>2
<1> QED
  BY <1>3, <1>4, <1>5 DEF VersionInv

\* A document is retired by the upload of a version of its own, which may be
\* finished with that, or by hand.
LEMMA RetirementKeepsVersions ==
  ASSUME TypeInv, VersionInv, NEW d \in Ids, NEW by \in Ids, MarkSuperseded(d, by),
         byHand \subseteq byHand', d \in byHand' \/ docs[by].base = d,
         settled' \subseteq settled \cup {by},
         by \in settled' => by \in settled \/ docs[by].base = d
  PROVE  VersionInv'
<1>1. SameFamilies
  BY MarkSupersededKeeps DEF TypeInv
<1>2. /\ docs'[d].status = "superseded" /\ docs'[d].by = by
      /\ \A x \in Ids : x # d => docs'[x] = docs[x]
  BY RetirementWritten DEF TypeInv
<1>3. by # 0
  BY RecordOf DEF TypeInv
<1>4. Marked'
  <2> SUFFICES ASSUME NEW x \in Ids, x \notin byHand'
               PROVE  \/ docs'[x].status # "superseded" /\ docs'[x].by = 0
                      \/ /\ docs'[x].status = "superseded" /\ docs'[x].by \in Ids
                         /\ docs'[docs'[x].by].base = x
    BY <1>1 DEF Marked, SameFamilies
  <2>1. CASE x = d
    BY <1>1, <1>2, <2>1 DEF SameFamilies
  <2>2. CASE x # d
    <3>1. docs'[x] = docs[x] /\ x \notin byHand
      BY <1>2, <2>2
    <3>2. \/ docs[x].status # "superseded" /\ docs[x].by = 0
          \/ /\ docs[x].status = "superseded" /\ docs[x].by \in Ids
             /\ docs[docs[x].by].base = x
      BY <3>1 DEF Marked, VersionInv
    <3> QED
      BY <1>1, <3>1, <3>2 DEF SameFamilies
  <2> QED
    BY <2>1, <2>2
<1>5. Retired'
  <2> SUFFICES ASSUME NEW x \in settled', docs'[x].base # 0, docs'[x].base \notin byHand'
               PROVE  docs'[docs'[x].base].by # 0
    BY DEF Retired
  <2>1. x \in Ids /\ docs'[x].base = docs[x].base /\ docs[x].base \in Ids
    BY <1>1, RecordOf DEF TypeInv, RestType, SameFamilies
  <2>2. CASE docs[x].base = d
    BY <1>2, <1>3, <2>1, <2>2
  <2>3. CASE docs[x].base # d
    <3>1. x \in settled /\ docs[x].base \notin byHand
      BY <2>1, <2>3
    <3>2. docs[docs[x].base].by # 0
      BY <2>1, <3>1 DEF Retired, VersionInv
    <3> QED
      BY <1>2, <2>1, <2>3, <3>2
  <2> QED
    BY <2>2, <2>3
<1> QED
  BY <1>1, <1>4, <1>5, RootedKept DEF VersionInv

LEMMA VersionsUntouched ==
  ASSUME TypeInv, VersionInv, UNCHANGED <<docs, byHand>>, settled' \subseteq Ids,
         \A d \in settled' \ settled : docs[d].base = 0
  PROVE  VersionInv'
<1>1. Marked'
  BY DEF Marked, VersionInv, Ids
<1>2. Retired'
  BY DEF Retired, VersionInv
<1>3. Rooted'
  BY DEF Rooted, VersionInv, Root, Ids
<1> QED
  BY <1>1, <1>2, <1>3 DEF VersionInv

LEMMA VersionInit == Init => VersionInv
BY DEF Init, VersionInv, Marked, Retired, Rooted, Ids

LEMMA RequestVersionStep ==
  ASSUME TypeInv, VersionInv, NEW u \in Users, Request(u)
  PROVE  VersionInv'
<1> DEFINE Idle == UNCHANGED <<docs, settled, byHand>>
<1>0. settled \subseteq Ids /\ DocType
  BY DEF TypeInv, RestType
<1>1. ASSUME Idle PROVE VersionInv'
  BY <1>0, <1>1, VersionsUntouched
<1>2. ASSUME CreateUploadIntent(u) PROVE VersionInv'
  <2> DEFINE r == [status |-> "draft", version |-> 1, parent |-> 0, base |-> 0,
                   by |-> 0, certificate |-> FALSE]
  <2>1. r \in Records /\ docs' = Append(docs, r) /\ UNCHANGED <<settled, byHand>>
    BY <1>2 DEF CreateUploadIntent, Records, Statuses, history
  <2>2. r.parent = ParentOf(r.base)
    BY DEF ParentOf
  <2> QED
    BY <2>1, <2>2, AppendKeepsVersions
<1>3. ASSUME NEW b, UploadDocument(u, b) \/ StoreCertificate(u, b) PROVE Idle
  BY <1>3 DEF UploadDocument, StoreCertificate, history
<1>4. ASSUME NEW d \in Ids, CreateNewVersion(u, d) PROVE Idle
  BY <1>3, <1>4 DEF CreateNewVersion
<1>5. ASSUME NEW d \in Ids, ConfirmSignedUpload(u, d) PROVE Idle
  BY <1>5 DEF ConfirmSignedUpload, history
<1>6. ASSUME NEW d \in Ids, NEW step, Load(u, d, step) PROVE Idle
  BY <1>6 DEF Load, history
<1>7. ASSUME NEW d \in Ids, NEW by \in Ids, SupersedeDocument(u, d, by) PROVE VersionInv'
  BY <1>0, <1>7, RetirementKeepsVersions DEF SupersedeDocument
<1> HIDE DEF Idle
<1> QED
  BY <1>1, <1>2, <1>3, <1>4, <1>5, <1>6, <1>7 DEF Request

LEMMA ContinueVersionStep ==
  ASSUME TypeInv, VersionInv, NEW u \in Users, Continue(u) \/ Fail(u)
  PROVE  VersionInv'
<1>0. settled \subseteq Ids /\ DocType
  BY DEF TypeInv, RestType
<1>1. ASSUME Create(u) PROVE VersionInv'
  <2>1. docs' = Append(docs, Created(u)) /\ UNCHANGED <<settled, byHand>>
    BY <1>1 DEF Create, Created, history
  <2>2. Created(u).status # "superseded"
    BY DocumentsAssumption DEF Created
  <2> QED
    BY <2>1, <2>2, CreatedFits, AppendKeepsVersions
<1>2. ASSUME RequestScan(u) PROVE VersionInv'
  <2>1. item[u] \in Ids /\ docs[item[u]].base = base[u] /\ UNCHANGED <<docs, byHand>>
    BY <1>2, InHand DEF RequestScan
  <2>2. settled' = settled \/ (base[u] = 0 /\ settled' = settled \cup {item[u]})
    BY <1>2 DEF RequestScan, Uploaded
  <2>3. settled' \subseteq Ids /\ \A d \in settled' \ settled : docs[d].base = 0
    BY <1>0, <2>1, <2>2
  <2> QED
    BY <2>1, <2>3, VersionsUntouched
<1>3. ASSUME Supersede(u) PROVE VersionInv'
  <2>1. item[u] \in Ids /\ base[u] \in Ids /\ docs[item[u]].base = base[u]
    BY <1>3, InHand DEF Supersede
  <2>2. MarkSuperseded(base[u], item[u]) /\ byHand' = byHand /\ settled' = settled \cup {item[u]}
    BY <1>3 DEF Supersede, Uploaded
  <2> QED
    BY <2>1, <2>2, RetirementKeepsVersions
<1>4. ASSUME Publish(u) \/ MarkVerified(u) \/ MarkRejected(u) \/ Confirm(u) PROVE VersionInv'
  <2>1. item[u] \in Ids
    BY <1>4, InHand DEF Publish, MarkVerified, MarkRejected, Confirm
  <2>2. {UploadStatus, "verified", "rejected"} \subseteq Statuses \ {"superseded"}
    BY DocumentsAssumption DEF Statuses
  <2>3. \E s \in Statuses \ {"superseded"} :
          SetStatus(item[u], s) /\ Revives(item[u]) /\ UNCHANGED settled
    BY <1>4, <2>2 DEF Publish, MarkVerified, MarkRejected, Confirm
  <2> QED
    BY <2>1, <2>3, StatusKeepsVersions
<1>5. ASSUME Fail(u) PROVE VersionInv'
  BY <1>0, <1>5, VersionsUntouched DEF Fail, history
<1> QED
  BY <1>1, <1>2, <1>3, <1>4, <1>5 DEF Continue

LEMMA VersionStep == TypeInv /\ VersionInv /\ [Next]_vars => VersionInv'
<1> SUFFICES ASSUME TypeInv, VersionInv, [Next]_vars PROVE VersionInv'
  OBVIOUS
<1>1. ASSUME (\E d \in Ids : SignedUpload(d)) \/ UNCHANGED vars PROVE VersionInv'
  BY <1>1, VersionsUntouched DEF SignedUpload, vars, history, TypeInv, RestType
<1> QED
  BY <1>1, RequestVersionStep, ContinueVersionStep DEF Next

LEMMA Versions == Spec => [](TypeInv /\ VersionInv)
<1>1. Init => TypeInv /\ VersionInv
  BY DocumentsTypeInit, VersionInit
<1>2. (TypeInv /\ VersionInv) /\ [Next]_vars => (TypeInv /\ VersionInv)'
  BY DocumentsTypeStep, VersionStep
<1> QED
  BY <1>1, <1>2, PTL DEF Spec

\* A version whose upload went through has retired its base in favour of itself
\* or of another version of that base, whatever crossed the upload, until somebody
\* retires the base by hand or writes over its status.
THEOREM FinishedVersionRetires == Spec => []VersionRetiresItsBase
<1>1. TypeInv /\ VersionInv => VersionRetiresItsBase
  <2> SUFFICES ASSUME TypeInv, VersionInv, NEW d \in settled,
                      docs[d].base # 0, docs[d].base \notin byHand
               PROVE  /\ docs[docs[d].base].status = "superseded"
                      /\ docs[docs[docs[d].base].by].base = docs[d].base
    BY DEF VersionRetiresItsBase
  <2>1. d \in Ids /\ docs[d].base \in Ids
    BY RecordOf DEF TypeInv, RestType
  <2>2. docs[docs[d].base].by # 0
    BY DEF VersionInv, Retired
  <2> QED
    BY <2>1, <2>2 DEF VersionInv, Marked
<1> QED
  BY <1>1, Versions, PTL

-----------------------------------------------------------------------------
(* A family keeps a version in force                                       *)

LEMMA NatSetHasLeast ==
  ASSUME NEW T, T \subseteq Nat, T # {}
  PROVE  \E x \in T : \A y \in T : x <= y
<1>1. \E x \in T : \A y \in T : ~ (<<y, x>> \in OpToRel(<, Nat))
  BY NatLessThanWellFounded, WFMin
<1>2. PICK x \in T : \A y \in T : ~ (<<y, x>> \in OpToRel(<, Nat))
  BY <1>1
<1>3. \A y \in T : ~ (y < x)
  BY <1>2 DEF OpToRel
<1>4. ASSUME NEW y \in T PROVE x <= y
  <2>1. x \in Nat /\ y \in Nat /\ ~ (y < x)
    BY <1>3
  <2> QED
    BY <2>1
<1> QED
  BY <1>2, <1>4

LEMMA HasGreatest ==
  ASSUME NEW n \in Nat, NEW T, T \subseteq 0..n, T # {}
  PROVE  \E x \in T : \A y \in T : y <= x
<1> DEFINE D == {n - x : x \in T}
<1>1. D \subseteq Nat /\ D # {}
  OBVIOUS
<1>2. PICK m \in D : \A k \in D : m <= k
  BY <1>1, NatSetHasLeast
<1>3. PICK x \in T : m = n - x
  BY <1>2
<1>4. ASSUME NEW y \in T PROVE y <= x
  <2>1. m <= n - y /\ y \in 0..n /\ x \in 0..n
    BY <1>2
  <2> QED
    BY <1>3, <2>1
<1> QED
  BY <1>4

\* However uploads of versions overlap, fail or die, a family that nobody touched
\* by hand has a version that is not superseded: the latest is such a one, for
\* what retires a document is a version of it, and later.
THEOREM FamilyInForce == Spec => []FamilyKeepsAVersion
<1>1. TypeInv /\ VersionInv => FamilyKeepsAVersion
  <2> SUFFICES ASSUME TypeInv, VersionInv, NEW r \in Ids, docs[r].parent = 0,
                      Family(r) \cap byHand = {}
               PROVE  \E d \in Family(r) : docs[d].status # "superseded"
    BY DEF FamilyKeepsAVersion
  <2>1. r \in Family(r)
    BY DEF Family, Root
  <2>2. Len(docs) \in Nat /\ Family(r) \subseteq 0..Len(docs)
    BY DEF Family, Ids, TypeInv, DocType
  <2>3. PICK d \in Family(r) : \A x \in Family(r) : x <= d
    BY <2>1, <2>2, HasGreatest
  <2>4. d \in Ids /\ d \notin byHand /\ Root(d) = r
    BY <2>3 DEF Family
  <2>5. ASSUME docs[d].status = "superseded" PROVE FALSE
    <3>1. docs[d].by \in Ids /\ docs[docs[d].by].base = d
      BY <2>4, <2>5 DEF VersionInv, Marked
    <3>2. docs[d].by \in Nat /\ d \in 0..(docs[d].by - 1) /\ d # 0
      BY <2>4, <3>1, RecordOf DEF TypeInv
    <3>3. docs[d].by \in Family(r)
      BY <2>4, <3>1, <3>2 DEF VersionInv, Rooted, Family
    <3> QED
      BY <2>3, <3>2, <3>3
  <2> QED
    BY <2>5
<1> QED
  BY <1>1, Versions, PTL

=============================================================================

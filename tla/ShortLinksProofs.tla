--------------------------- MODULE ShortLinksProofs ----------------------------
(***************************************************************************)
(* Proofs about ShortLinks, for any requests, codes and URLs, any number   *)
(* of attempts and of faults: each client owns the code it was given, and  *)
(* the services implement the directory of LinkDirectory.                  *)
(***************************************************************************)
EXTENDS ShortLinks, FiniteSetTheorems, TLAPS

RowOf(q) == [code |-> code[q], url |-> url[q], by |-> q]

\* The unique index, and no two rows of one request: it stops at the first.
RowsUnique ==
    \A row1, row2 \in links :
        row1.code = row2.code \/ row1.by = row2.by => row1 = row2

\* A row is written by the last step of its request.
RowsFinal ==
    \A row \in links : pc[row.by] = "answered" /\ row.url = url[row.by]

\* What the status says of the table.
StatusTrue ==
    \A q \in Request :
        /\ pc[q] # "answered" => status[q] = 0 /\ attempt[q] < MaxAttempts
        /\ status[q] = 201 => RowOf(q) \in links
        /\ status[q] = 503 => attempt[q] = MaxAttempts /\ Used(code[q])
        /\ pc[q] \in {"generate", "insert"} => url[q] \notin Refused

IInv == TypeOK /\ RowsUnique /\ RowsFinal /\ StatusTrue

--------------------------------------------------------------------------------
LEMMA InitIInv == Init => IInv
BY LinksAssumption DEF Init, IInv, TypeOK, Row, RowsUnique, RowsFinal, StatusTrue

\* The step of a request that writes no row.
LEMMA NoRowStep ==
    ASSUME IInv, TypeOK', NEW q \in Request, UNCHANGED <<links, url>>,
           pc[q] # "answered",
           \A p \in Request : p # q =>
               /\ pc'[p] = pc[p] /\ attempt'[p] = attempt[p]
               /\ code'[p] = code[p] /\ status'[p] = status[p],
           pc'[q] # "answered" => status'[q] = 0 /\ attempt'[q] < MaxAttempts,
           status'[q] # 201,
           status'[q] = 503 => attempt'[q] = MaxAttempts /\ Used(code'[q]),
           pc'[q] \in {"generate", "insert"} => url[q] \notin Refused
    PROVE  IInv'
<1> USE DEF IInv
<1>1. RowsUnique'
  BY DEF RowsUnique
<1>2. RowsFinal'
  BY DEF RowsFinal, TypeOK, Row
<1>3. StatusTrue'
  BY DEF StatusTrue, RowOf, Used
<1> QED BY <1>1, <1>2, <1>3

\* The step of a request that writes its row, whatever it tells the client.
LEMMA RowStep ==
    ASSUME IInv, NEW q \in Request, NEW s \in {201, 500},
           pc[q] = "insert", Insertable(q), links' = Stored(q), Reply(q, s),
           UNCHANGED <<url, attempt, code, answers>>, faults' \in Nat
    PROVE  IInv'
<1> USE DEF IInv
<1>1. /\ links' = links \cup {RowOf(q)}
      /\ RowOf(q) \in Row
      /\ ~Used(code[q])
  <2>1. links' = links \cup {RowOf(q)}
    BY DEF Stored, RowOf
  <2>2. url[q] \in Url \ Refused /\ code[q] \in Code
    BY DEF TypeOK, StatusTrue
  <2>3. RowOf(q) \in Row
    BY <2>2 DEF RowOf, Row
  <2> QED BY <2>1, <2>3 DEF Insertable
<1>2. /\ pc' = [pc EXCEPT ![q] = "answered"]
      /\ status' = [status EXCEPT ![q] = s]
  BY DEF Reply
<1>3. TypeOK'
  BY <1>1, <1>2 DEF TypeOK
<1>4. RowsUnique'
  <2>1. \A row \in links : row.code # code[q] /\ row.by # q
    BY <1>1 DEF Used, RowsFinal
  <2> QED BY <1>1, <2>1 DEF RowsUnique, RowOf
<1>5. RowsFinal'
  BY <1>1, <1>2 DEF RowsFinal, RowOf, TypeOK, Row
<1>6. StatusTrue'
  BY <1>1, <1>2 DEF StatusTrue, RowOf, Used, TypeOK
<1> QED BY <1>3, <1>4, <1>5, <1>6

LEMMA NextIInv == IInv /\ [Next]_vars => IInv'
<1> SUFFICES ASSUME IInv, [Next]_vars
             PROVE  IInv'
  OBVIOUS
<1> USE LinksAssumption DEF IInv
<1>1. ASSUME NEW q \in Request, Begin(q)
      PROVE  IInv'
  <2>1. TypeOK'
    BY <1>1 DEF Begin, Reply, TypeOK
  <2> QED BY <1>1, <2>1, NoRowStep DEF Begin, Reply, TypeOK, StatusTrue
<1>2. ASSUME NEW q \in Request, Generate(q)
      PROVE  IInv'
  <2>1. TypeOK'
    BY <1>2 DEF Generate, Reply, TypeOK
  <2>2. \A p \in Request : p # q => code'[p] = code[p] /\ pc'[p] = pc[p]
                                     /\ status'[p] = status[p]
    BY <1>2 DEF Generate, Reply, TypeOK
  <2> QED BY <1>2, <2>1, <2>2, NoRowStep DEF Generate, Reply, TypeOK, StatusTrue
<1>3. ASSUME NEW q \in Request, InsertOK(q)
      PROVE  IInv'
  BY <1>3, RowStep DEF InsertOK, TypeOK
<1>4. ASSUME NEW q \in Request, CodeUsed(q)
      PROVE  IInv'
  <2>1. attempt[q] \in Nat /\ attempt[q] < MaxAttempts
    BY <1>4 DEF CodeUsed, TypeOK, StatusTrue
  <2>2. TypeOK'
    BY <1>4, <2>1 DEF CodeUsed, Reply, TypeOK
  <2>3. Used(code[q])
    BY <1>4 DEF CodeUsed, Insertable
  <2> QED BY <1>4, <2>1, <2>2, <2>3, NoRowStep
          DEF CodeUsed, LastAttempt, Reply, TypeOK, StatusTrue
<1>5. ASSUME NEW q \in Request, InsertFails(q)
      PROVE  IInv'
  <2>1. CASE UNCHANGED links
    <3>1. TypeOK'
      BY <1>5, <2>1 DEF InsertFails, Failed, Reply, TypeOK
    <3> QED BY <1>5, <2>1, <3>1, NoRowStep DEF InsertFails, Failed, Reply, TypeOK
  <2>2. CASE Insertable(q) /\ links' = Stored(q)
    BY <1>5, <2>2, RowStep DEF InsertFails, Failed, TypeOK
  <2> QED BY <1>5, <2>1, <2>2 DEF InsertFails
<1>6. ASSUME NEW c \in Code, Visit(c)
      PROVE  IInv'
  <2>1. TypeOK'
    BY <1>6 DEF Visit, TypeOK, Row, request
  <2> QED BY <1>6, <2>1 DEF Visit, request, RowsUnique, RowsFinal, StatusTrue,
                            RowOf, Used
<1>7. CASE UNCHANGED vars
  BY <1>7 DEF vars, request, TypeOK, RowsUnique, RowsFinal, StatusTrue, RowOf, Used
<1> QED BY <1>1, <1>2, <1>3, <1>4, <1>5, <1>6, <1>7 DEF Next, Create

THEOREM Invariance == Spec => []IInv
BY InitIInv, NextIInv, PTL DEF Spec

\* Who was told 201 owns the code: visits of it lead to the URL of that request.
THEOREM CreatedAlwaysResolves == Spec => []CreatedResolves
<1>1. IInv => CreatedResolves
  <2> SUFFICES ASSUME IInv, NEW q \in Request, status[q] = 201
               PROVE  {row.url : row \in {r \in links : r.code = code[q]}} = {url[q]}
    BY DEF CreatedResolves, Answered
  <2>1. RowOf(q) \in links /\ RowOf(q).code = code[q] /\ RowOf(q).url = url[q]
    BY DEF IInv, StatusTrue, RowOf
  <2>2. \A row \in links : row.code = code[q] => row = RowOf(q)
    BY <2>1 DEF IInv, RowsUnique
  <2>3. {r \in links : r.code = code[q]} = {RowOf(q)}
    BY <2>1, <2>2
  <2> QED BY <2>1, <2>3
<1> QED BY <1>1, Invariance, PTL

\* Two requests are never told the same code.
THEOREM CodesAlwaysExclusive == Spec => []CodesExclusive
<1>1. IInv => CodesExclusive
  <2> SUFFICES ASSUME IInv, NEW p \in Request, NEW q \in Request,
                      status[p] = 201, status[q] = 201, code[p] = code[q]
               PROVE  p = q
    BY DEF CodesExclusive, Answered
  <2>1. RowOf(p) \in links /\ RowOf(q) \in links
    BY DEF IInv, StatusTrue
  <2>2. /\ RowOf(p).code = RowOf(q).code
        /\ RowOf(p).by = p /\ RowOf(q).by = q
    BY DEF RowOf
  <2>3. RowOf(p) = RowOf(q)
    BY <2>1, <2>2 DEF IInv, RowsUnique
  <2> QED BY <2>2, <2>3
<1> QED BY <1>1, Invariance, PTL

\* 503 is told only after MaxCodeAttempts codes were found used.
THEOREM ExhaustionIsTrue == Spec => []ExhaustedMeansUsed
<1>1. IInv => ExhaustedMeansUsed
  BY DEF IInv, StatusTrue, ExhaustedMeansUsed, Answered
<1> QED BY <1>1, Invariance, PTL

\* A request writes one row at most, however often it tried.
THEOREM RequestsWriteOnce == Spec => []OneRowPerRequest
<1>1. IInv => OneRowPerRequest
  BY DEF IInv, RowsUnique, OneRowPerRequest
<1> QED BY <1>1, Invariance, PTL

--------------------------------------------------------------------------------
(* The services implement the directory.                                   *)

Target == [c \in Code |-> IF Used(c)
                          THEN (CHOOSE row \in links : row.code = c).url
                          ELSE NotFound]

\* The row CHOOSE finds is the only one.
LEMMA TargetOfRow ==
    ASSUME IInv, NEW row \in links
    PROVE  row.code \in Code /\ Target[row.code] = row.url
<1>1. row.code \in Code
  BY DEF IInv, TypeOK, Row
<1>2. Used(row.code)
  BY DEF Used
<1> DEFINE r == CHOOSE r \in links : r.code = row.code
<1>3. r \in links /\ r.code = row.code
  OBVIOUS
<1>4. r = row
  BY <1>3 DEF IInv, RowsUnique
<1> QED BY <1>1, <1>2, <1>4 DEF Target

\* Writing a row points its code, and no other, at its URL.
LEMMA StoredAssigns ==
    ASSUME IInv, NEW q \in Request, pc[q] = "insert", Insertable(q),
           links' = Stored(q), UNCHANGED answers, IInv'
    PROVE  Directory!Next
<1>1. code[q] \in Code /\ url[q] \in Url
  BY DEF IInv, TypeOK
<1>2. links' = links \cup {RowOf(q)} /\ ~Used(code[q])
  BY DEF Stored, RowOf, Insertable
<1>3. RowOf(q).code = code[q] /\ RowOf(q).url = url[q]
  BY DEF RowOf
<1>4. Target[code[q]] = NotFound
  BY <1>1, <1>2 DEF Target
<1>5. (Target')[code[q]] = url[q]
  <2>1. \A row \in links' : row.code = code[q] => row = RowOf(q)
    BY <1>2 DEF Used
  <2>2. RowOf(q) \in links'
    BY <1>2
  <2>3. (CHOOSE row \in links' : row.code = code[q]) = RowOf(q)
    BY <2>1, <2>2, <1>3
  <2> QED BY <1>1, <1>3, <2>2, <2>3 DEF Target, Used
<1>6. ASSUME NEW c \in Code, c # code[q]
      PROVE  (Target')[c] = Target[c]
  <2>1. \A row : row \in links' /\ row.code = c <=> row \in links /\ row.code = c
    BY <1>2, <1>3, <1>6
  <2>2. (Used(c))' <=> Used(c)
    BY <2>1 DEF Used
  <2>3. CASE Used(c)
    <3>1. PICK row \in links : row.code = c
      BY <2>3 DEF Used
    <3>2. row \in links'
      BY <1>2
    <3>3. Target[c] = row.url
      BY <3>1, TargetOfRow
    <3>4. \A r \in links' : r.code = c => r = row
      BY <2>1, <3>1 DEF IInv, RowsUnique
    <3>5. (CHOOSE r \in links' : r.code = c) = row
      BY <3>1, <3>2, <3>4
    <3>6. (Target')[c] = row.url
      BY <2>2, <2>3, <3>5 DEF Target
    <3> QED BY <3>3, <3>6
  <2>4. CASE ~Used(c)
    BY <2>2, <2>4 DEF Target
  <2> QED BY <2>3, <2>4
<1>7. Target' = [Target EXCEPT ![code[q]] = url[q]]
  <2>1. /\ Target = [c \in Code |-> Target[c]]
        /\ Target' = [c \in Code |-> (Target')[c]]
    BY DEF Target
  <2> QED BY <1>1, <1>5, <1>6, <2>1
<1>8. PICK c \in Code, u \in Url : c = code[q] /\ u = url[q]
  BY <1>1
<1>9. Directory!Assign(c, u)
  BY <1>4, <1>7, <1>8 DEF Directory!Assign, Target
<1> QED BY <1>9 DEF Directory!Next

LEMMA NextDirectory ==
    IInv /\ IInv' /\ [Next]_vars => [Directory!Next]_(Directory!directoryVars)
<1> SUFFICES ASSUME IInv, IInv', [Next]_vars
             PROVE  Directory!Next \/ UNCHANGED Directory!directoryVars
  OBVIOUS
<1>1. (UNCHANGED <<links, answers>>) => UNCHANGED Directory!directoryVars
  BY DEF Directory!directoryVars, Used
<1>2. ASSUME NEW q \in Request, Begin(q) \/ Generate(q) \/ CodeUsed(q)
      PROVE  UNCHANGED <<links, answers>>
  BY <1>2 DEF Begin, Generate, CodeUsed
<1>3. ASSUME NEW q \in Request, InsertOK(q)
      PROVE  Directory!Next
  BY <1>3, StoredAssigns DEF InsertOK
<1>4. ASSUME NEW q \in Request, InsertFails(q)
      PROVE  Directory!Next \/ UNCHANGED <<links, answers>>
  BY <1>4, StoredAssigns DEF InsertFails
<1>5. ASSUME NEW c \in Code, Visit(c)
      PROVE  Directory!Next
  <2>1. UNCHANGED links
    BY <1>5 DEF Visit
  <2>2. answers' = answers \cup {<<c, Target[c]>>}
    <3>1. CASE \E row \in links : row.code = c /\ answers' = answers \cup {<<c, row.url>>}
      BY <3>1, TargetOfRow
    <3>2. CASE ~Used(c) /\ answers' = answers \cup {<<c, NotFound>>}
      BY <3>2 DEF Target
    <3> QED BY <1>5, <3>1, <3>2 DEF Visit
  <2>3. Directory!Answer(c)
    BY <2>1, <2>2 DEF Directory!Answer, Target, Used
  <2> QED BY <2>3 DEF Directory!Next
<1>6. CASE UNCHANGED vars
  BY <1>1, <1>6 DEF vars
<1>7. ASSUME NEW q \in Request, Create(q)
      PROVE  Directory!Next \/ UNCHANGED Directory!directoryVars
  BY <1>1, <1>2, <1>3, <1>4, <1>7 DEF Create
<1> QED BY <1>5, <1>6, <1>7 DEF Next

\* Every code is given to one URL, once and for good, and whoever asks is sent there.
THEOREM DirectoryImplemented == Spec => ImplementsDirectory
<1>1. Init => Directory!Init
  BY DEF Init, Directory!Init, Used
<1> QED BY <1>1, Invariance, NextDirectory, PTL
        DEF Spec, ImplementsDirectory, Directory!Spec

--------------------------------------------------------------------------------
(* What the clients rely on, in one piece.                                 *)

\* The attempt counter never exceeds MaxCodeAttempts, and a row is a row.
THEOREM TypesShortLinks == Spec => []TypeOK
<1>1. IInv => TypeOK
  BY DEF IInv
<1> QED BY <1>1, Invariance, PTL

\* 201 and 503 both say the truth about the table.
THEOREM AnswersAreTrue == Spec => []AnswersTrue
BY CreatedAlwaysResolves, ExhaustionIsTrue, PTL DEF AnswersTrue

--------------------------------------------------------------------------------
(* Rows no client was told about.                                          *)

Orphans == {row \in links : status[row.by] # 201}

OrphansCounted == IsFiniteSet(Orphans) /\ Cardinality(Orphans) <= faults

\* Every step adds an orphan at most, and none without a fault.
LEMMA OrphanStep ==
    ASSUME IInv, Next
    PROVE  \/ Orphans' \subseteq Orphans /\ faults' >= faults
           \/ faults' = faults + 1 /\ \E row : Orphans' \subseteq Orphans \cup {row}
<1> USE DEF IInv
<1>0. faults \in Nat /\ \A row \in links : row.by \in Request /\ pc[row.by] = "answered"
  BY DEF TypeOK, Row, RowsFinal
<1>1. ASSUME NEW q \in Request, UNCHANGED links, pc[q] # "answered",
             \A p \in Request : p # q => status'[p] = status[p]
      PROVE  Orphans' \subseteq Orphans
  BY <1>0, <1>1 DEF Orphans
<1>2. ASSUME NEW q \in Request, Begin(q) \/ Generate(q) \/ CodeUsed(q)
      PROVE  Orphans' \subseteq Orphans /\ faults' >= faults
  <2>1. /\ UNCHANGED links /\ pc[q] # "answered"
        /\ \A p \in Request : p # q => status'[p] = status[p]
    BY <1>2 DEF Begin, Generate, CodeUsed, Reply, TypeOK
  <2>2. faults' >= faults
    BY <1>0, <1>2 DEF Begin, Generate, CodeUsed
  <2> QED BY <1>1, <2>1, <2>2
<1>3. ASSUME NEW q \in Request, InsertOK(q)
      PROVE  Orphans' \subseteq Orphans /\ faults' >= faults
  <2>1. /\ links' = links \cup {RowOf(q)} /\ pc[q] # "answered" /\ faults' = faults
        /\ status'[q] = 201 /\ RowOf(q).by = q
        /\ \A p \in Request : p # q => status'[p] = status[p]
    BY <1>3 DEF InsertOK, Stored, RowOf, Reply, TypeOK
  <2> QED BY <1>0, <2>1 DEF Orphans
<1>4. ASSUME NEW q \in Request, InsertFails(q)
      PROVE  faults' = faults + 1 /\ \E row : Orphans' \subseteq Orphans \cup {row}
  <2>1. /\ links' \subseteq links \cup {RowOf(q)} /\ pc[q] # "answered"
        /\ faults' = faults + 1
        /\ \A p \in Request : p # q => status'[p] = status[p]
    BY <1>4 DEF InsertFails, Stored, RowOf, Failed, Reply, TypeOK
  <2>2. Orphans' \subseteq Orphans \cup {RowOf(q)}
    BY <1>0, <2>1 DEF Orphans
  <2> QED BY <2>1, <2>2
<1>5. ASSUME NEW c \in Code, Visit(c)
      PROVE  Orphans' \subseteq Orphans /\ faults' >= faults
  BY <1>0, <1>5 DEF Visit, Orphans, request
<1> QED BY <1>2, <1>3, <1>4, <1>5 DEF Next, Create

LEMMA NextOrphans == IInv /\ OrphansCounted /\ [Next]_vars => OrphansCounted'
<1> SUFFICES ASSUME IInv, OrphansCounted, [Next]_vars PROVE OrphansCounted'
  OBVIOUS
<1> USE DEF OrphansCounted
<1>0. faults \in Nat /\ Cardinality(Orphans) \in Nat
  BY FS_CardinalityType DEF IInv, TypeOK
<1>1. CASE Orphans' \subseteq Orphans /\ faults' >= faults /\ faults' \in Nat
  <2>1. IsFiniteSet(Orphans') /\ Cardinality(Orphans') <= Cardinality(Orphans)
        /\ Cardinality(Orphans') \in Nat
    BY <1>1, FS_Subset, FS_CardinalityType
  <2> QED BY <1>0, <1>1, <2>1
<1>2. CASE faults' = faults + 1 /\ \E row : Orphans' \subseteq Orphans \cup {row}
  <2>1. PICK row : Orphans' \subseteq Orphans \cup {row}
    BY <1>2
  <2>2. /\ IsFiniteSet(Orphans \cup {row})
        /\ Cardinality(Orphans \cup {row}) <= Cardinality(Orphans) + 1
        /\ Cardinality(Orphans \cup {row}) \in Nat
    <3>1. /\ IsFiniteSet(Orphans \cup {row})
          /\ Cardinality(Orphans \cup {row})
               = IF row \in Orphans THEN Cardinality(Orphans) ELSE Cardinality(Orphans) + 1
      <4> HIDE DEF Orphans
      <4> QED BY FS_AddElement
    <3> QED BY <1>0, <3>1
  <2>3. /\ IsFiniteSet(Orphans') /\ Cardinality(Orphans') \in Nat
        /\ Cardinality(Orphans') <= Cardinality(Orphans \cup {row})
    BY <2>1, <2>2, FS_Subset, FS_CardinalityType
  <2> QED BY <1>0, <1>2, <2>2, <2>3
<1>3. CASE UNCHANGED vars
  BY <1>3, <1>0, <1>1 DEF vars, request, Orphans
<1>4. faults' \in Nat
  <2>1. IInv'
    BY NextIInv
  <2> QED BY <2>1 DEF IInv, TypeOK
<1> QED BY <1>1, <1>2, <1>3, <1>4, OrphanStep

\* A row whose client was not told 201 takes a failed or unanswered query.
THEOREM OrphansTakeFaults == Spec => []OrphansNeedFaults
<1>1. Init => OrphansCounted
  BY FS_EmptySet DEF Init, OrphansCounted, Orphans
<1>2. OrphansCounted => OrphansNeedFaults
  BY DEF OrphansCounted, Orphans, OrphansNeedFaults
<1> QED BY <1>1, <1>2, Invariance, NextOrphans, PTL DEF Spec

================================================================================

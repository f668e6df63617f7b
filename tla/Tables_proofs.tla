--------------------------- MODULE Tables_proofs ---------------------------
(***************************************************************************)
(* What people keep in PostgreSQL, for any number of turns, accounts,      *)
(* sessions and requests.                                                  *)
(*                                                                         *)
(* Conversation: a turn appends once, so ids and sequence numbers stay     *)
(* bounded (Appended), a row's turn has read only ids older than its own   *)
(* rows, and what it read lies below the max(seq) it goes on from (Based). *)
(* Accounts: a token is never ahead of its account and, while level with   *)
(* it, has its role (TokenKept); what a worker refused is behind its       *)
(* account and remembered so (RefusedKept); until two guards overlap, one  *)
(* that counted still leaves another admin and is the only one             *)
(* (GuardsApart).  TableStep says what no operation on the table takes     *)
(* back, and each operation is shown to be one before the requests are.    *)
(***************************************************************************)
EXTENDS MCTables, FiniteSetTheorems, TLAPS

-----------------------------------------------------------------------------
(* Conversation.                                                           *)

\* The turns that are past their append.
Behind   == {"trace", "title", "ledger", "over", "lost"}
Appended == {t \in Turns : pc[t] \in Behind}

\* Every append adds at most two ids and two sequence numbers.
RowsCounted ==
  /\ nextId <= 1 + 2 * Cardinality(Appended)
  /\ \A t \in Turns : base[t] <= 2 * Cardinality(Appended)
  /\ \A m \in messages : m.seq <= 2 * Cardinality(Appended)

\* A row is its turn's own, and a turn has read rows that were there.
RowsOwned ==
  /\ \A m \in messages : pc[m.of] \in Behind
  /\ \A t \in Turns : saw[t] \subseteq 1..(nextId - 1)

\* What a turn about to insert has read lies below what it goes on from.
Based ==
  \A t \in Turns : pc[t] = "appending" =>
    \A n \in messages : n.id \in saw[t] => n.seq <= base[t]

\* A question back is its turn's last act, and a turn that answers one was past
\* asking; the question it answers is taken.
QuestionInv ==
  /\ \A t \in Turns : pending[t] # "none" => pc[t] \in {"ledger", "over", "lost"}
  /\ \A t \in Turns : answers[t] # NoTurn =>
       pc[t] \notin {"new", "gate"} /\ pending[answers[t]] \in {"resolved", "deleted"}

TalkInv ==
  /\ TypeOK /\ RowsCounted /\ RowsOwned /\ Based
  /\ AfterWhatItRead /\ QuestionInv /\ OneRound /\ NothingAfterDelete

\* A conversation that was just opened has no rows.
LEMMA TalkInit == Init => TalkInv
<1> SUFFICES ASSUME Init PROVE TalkInv
  OBVIOUS
<1> USE ConversationAssumption DEF Init
<1>1. /\ IsFiniteSet(Appended) /\ Cardinality(Appended) \in Nat
      /\ Cardinality(Turns) \in Nat
  <2>1. Appended \subseteq Turns
    BY DEF Appended
  <2> QED
    BY <2>1, FS_Subset, FS_CardinalityType
<1>2. TypeOK
  BY <1>1 DEF TypeOK, Limit, PCs
<1>3. RowsCounted /\ RowsOwned /\ Based
  BY <1>1 DEF RowsCounted, RowsOwned, Based
<1>4. AfterWhatItRead /\ QuestionInv /\ OneRound /\ NothingAfterDelete
  BY DEF AfterWhatItRead, QuestionInv, OneRound, NothingAfterDelete
<1> QED
  BY <1>2, <1>3, <1>4 DEF TalkInv

\* A turn moves on, and never back from behind its append.
LEMMA AppendedGrows ==
  ASSUME TypeOK, NEW t \in Turns, NEW where \in PCs, Goto(t, where),
         pc[t] \in Behind => where \in Behind
  PROVE  /\ Cardinality(Appended) \in Nat /\ Cardinality(Appended)' \in Nat
         /\ Cardinality(Turns) \in Nat
         /\ Cardinality(Appended)' <= Cardinality(Turns)
         /\ Cardinality(Appended) <= Cardinality(Appended)'
         /\ (pc[t] \notin Behind /\ where \in Behind) =>
              Cardinality(Appended)' = Cardinality(Appended) + 1
<1>1. /\ IsFiniteSet(Turns) /\ Appended \subseteq Turns /\ Appended' \subseteq Turns
  BY ConversationAssumption DEF Appended
<1>2. /\ IsFiniteSet(Appended) /\ Cardinality(Appended) \in Nat
      /\ Cardinality(Turns) \in Nat
  BY <1>1, FS_Subset, FS_CardinalityType
<1>3. IsFiniteSet(Appended') /\ Cardinality(Appended') \in Nat
      /\ Cardinality(Appended') <= Cardinality(Turns)
  BY <1>1, FS_Subset, FS_CardinalityType
<1>4. Appended' = IF where \in Behind THEN Appended \cup {t} ELSE Appended
  BY DEF Appended, TypeOK, Goto
<1>5. t \in Appended <=> pc[t] \in Behind
  BY DEF Appended
<1> QED
  BY <1>2, <1>3, <1>4, <1>5, FS_AddElement

\* No statement of a turn or of the owner breaks what the store promises.
LEMMA TalkNext == TalkInv /\ [Next]_vars => TalkInv'
<1> SUFFICES ASSUME TalkInv, [Next]_vars PROVE TalkInv'
  OBVIOUS
<1> USE ConversationAssumption DEF db
<1>0. /\ Cardinality(Appended) \in Nat /\ Cardinality(Turns) \in Nat
      /\ Cardinality(Appended) <= Cardinality(Turns)
  <2>1. Appended \subseteq Turns
    BY DEF Appended
  <2> QED
    BY <2>1, FS_Subset, FS_CardinalityType
<1>1. ASSUME NEW t \in Turns, Ask(t) PROVE TalkInv'
  <2>1. PICK where \in PCs : Goto(t, where) /\ (pc[t] \in Behind => where \in Behind)
    BY <1>1 DEF Ask, PCs, Behind, First
  <2>2. /\ Cardinality(Appended)' \in Nat /\ Cardinality(Appended)' <= Cardinality(Turns)
        /\ Cardinality(Appended) <= Cardinality(Appended)'
    BY <2>1, AppendedGrows DEF TalkInv
  <2>3. TypeOK'
    BY <1>0, <1>1, <2>1 DEF Ask, TalkInv, TypeOK, RowsOwned, RowsCounted, Goto, Limit
  <2>4. RowsCounted'
    BY <1>0, <1>1, <2>2 DEF Ask, TalkInv, TypeOK, RowsCounted
  <2>5. RowsOwned' /\ Based' /\ AfterWhatItRead'
    BY <1>1, <2>1 DEF Ask, TalkInv, TypeOK, RowsOwned, Based, AfterWhatItRead, Goto,
       Behind
  <2>6. QuestionInv' /\ OneRound' /\ NothingAfterDelete'
    BY <1>1 DEF Ask, TalkInv, TypeOK, QuestionInv, OneRound, NothingAfterDelete,
       Goto, First
  <2> QED
    BY <2>3, <2>4, <2>5, <2>6 DEF TalkInv
<1>2. ASSUME NEW t \in Turns, Claim(t) PROVE TalkInv'
  <2>1. PICK where \in PCs : Goto(t, where) /\ (pc[t] \in Behind => where \in Behind)
    BY <1>2 DEF Claim, PCs, Behind, First
  <2>2. /\ Cardinality(Appended)' \in Nat /\ Cardinality(Appended)' <= Cardinality(Turns)
        /\ Cardinality(Appended) <= Cardinality(Appended)'
    BY <2>1, AppendedGrows DEF TalkInv
  <2>3. TypeOK'
    BY <1>0, <1>2, <2>1 DEF Claim, TalkInv, TypeOK, RowsOwned, RowsCounted, Goto, Limit
  <2>4. RowsCounted'
    BY <1>0, <1>2, <2>2 DEF Claim, TalkInv, TypeOK, RowsCounted
  <2>5. RowsOwned' /\ Based' /\ AfterWhatItRead'
    BY <1>2, <2>1 DEF Claim, TalkInv, TypeOK, RowsOwned, Based, AfterWhatItRead, Goto,
       Behind
  <2>6. QuestionInv' /\ OneRound' /\ NothingAfterDelete'
    BY <1>2 DEF Claim, TalkInv, TypeOK, QuestionInv, OneRound, NothingAfterDelete,
       Goto, First
  <2> QED
    BY <2>3, <2>4, <2>5, <2>6 DEF TalkInv
<1>3. ASSUME NEW t \in Turns, Regenerate(t) PROVE TalkInv'
  <2>1. PICK where \in PCs : Goto(t, where) /\ (pc[t] \in Behind => where \in Behind)
    BY <1>3 DEF Regenerate, PCs, Behind, First
  <2>2. /\ Cardinality(Appended)' \in Nat /\ Cardinality(Appended)' <= Cardinality(Turns)
        /\ Cardinality(Appended) <= Cardinality(Appended)'
    BY <2>1, AppendedGrows DEF TalkInv
  <2>3. TypeOK'
    BY <1>0, <1>3, <2>1 DEF Regenerate, Ids, LatestAnswer, TalkInv, TypeOK, RowsOwned,
       RowsCounted, Goto, Limit
  <2>4. RowsCounted'
    BY <1>0, <1>3, <2>2 DEF Regenerate, Ids, LatestAnswer, TalkInv, TypeOK, RowsCounted
  <2>5. RowsOwned' /\ Based' /\ AfterWhatItRead'
    BY <1>3, <2>1 DEF Regenerate, Ids, LatestAnswer, TalkInv, TypeOK, RowsOwned, Based,
       AfterWhatItRead, Goto,
       Behind
  <2>6. QuestionInv' /\ OneRound' /\ NothingAfterDelete'
    BY <1>3 DEF Regenerate, Ids, LatestAnswer, TalkInv, TypeOK, QuestionInv, OneRound,
       NothingAfterDelete,
       Goto, First
  <2> QED
    BY <2>3, <2>4, <2>5, <2>6 DEF TalkInv
<1>4. ASSUME NEW t \in Turns, Read(t) PROVE TalkInv'
  <2>1. PICK where \in PCs : Goto(t, where) /\ (pc[t] \in Behind => where \in Behind)
    BY <1>4 DEF Read, PCs, Behind, First
  <2>2. /\ Cardinality(Appended)' \in Nat /\ Cardinality(Appended)' <= Cardinality(Turns)
        /\ Cardinality(Appended) <= Cardinality(Appended)'
    BY <2>1, AppendedGrows DEF TalkInv
  <2>3. TypeOK'
    BY <1>0, <1>4, <2>1 DEF Read, Ids, TalkInv, TypeOK, RowsOwned, RowsCounted, Goto, Limit
  <2>4. RowsCounted'
    BY <1>0, <1>4, <2>2 DEF Read, Ids, TalkInv, TypeOK, RowsCounted
  <2>5. RowsOwned' /\ Based' /\ AfterWhatItRead'
    BY <1>4, <2>1 DEF Read, Ids, TalkInv, TypeOK, RowsOwned, Based, AfterWhatItRead, Goto,
       Behind
  <2>6. QuestionInv' /\ OneRound' /\ NothingAfterDelete'
    BY <1>4 DEF Read, Ids, TalkInv, TypeOK, QuestionInv, OneRound, NothingAfterDelete,
       Goto, First
  <2> QED
    BY <2>3, <2>4, <2>5, <2>6 DEF TalkInv
<1>5. ASSUME NEW t \in Turns, Gate(t) PROVE TalkInv'
  <2>1. PICK where \in PCs : Goto(t, where) /\ (pc[t] \in Behind => where \in Behind)
    BY <1>5 DEF Gate, PCs, Behind, First
  <2>2. /\ Cardinality(Appended)' \in Nat /\ Cardinality(Appended)' <= Cardinality(Turns)
        /\ Cardinality(Appended) <= Cardinality(Appended)'
    BY <2>1, AppendedGrows DEF TalkInv
  <2>3. TypeOK'
    BY <1>0, <1>5, <2>1 DEF Gate, TalkInv, TypeOK, RowsOwned, RowsCounted, Goto, Limit
  <2>4. RowsCounted'
    BY <1>0, <1>5, <2>2 DEF Gate, TalkInv, TypeOK, RowsCounted
  <2>5. RowsOwned' /\ Based' /\ AfterWhatItRead'
    BY <1>5, <2>1 DEF Gate, TalkInv, TypeOK, RowsOwned, Based, AfterWhatItRead, Goto,
       Behind
  <2>6. QuestionInv' /\ OneRound' /\ NothingAfterDelete'
    BY <1>5 DEF Gate, TalkInv, TypeOK, QuestionInv, OneRound, NothingAfterDelete,
       Goto, First
  <2> QED
    BY <2>3, <2>4, <2>5, <2>6 DEF TalkInv
<1>6. ASSUME NEW t \in Turns, Answer(t) PROVE TalkInv'
  <2>1. PICK where \in PCs : Goto(t, where) /\ (pc[t] \in Behind => where \in Behind)
    BY <1>6 DEF Answer, PCs, Behind, First
  <2>2. /\ Cardinality(Appended)' \in Nat /\ Cardinality(Appended)' <= Cardinality(Turns)
        /\ Cardinality(Appended) <= Cardinality(Appended)'
    BY <2>1, AppendedGrows DEF TalkInv
  <2>3. TypeOK'
    BY <1>0, <1>6, <2>1 DEF Answer, Charge, TalkInv, TypeOK, RowsOwned, RowsCounted, Goto, Limit
  <2>4. RowsCounted'
    BY <1>0, <1>6, <2>2 DEF Answer, Charge, TalkInv, TypeOK, RowsCounted
  <2>5. RowsOwned' /\ Based' /\ AfterWhatItRead'
    BY <1>6, <2>1 DEF Answer, Charge, TalkInv, TypeOK, RowsOwned, Based, AfterWhatItRead, Goto,
       Behind
  <2>6. QuestionInv' /\ OneRound' /\ NothingAfterDelete'
    BY <1>6 DEF Answer, Charge, TalkInv, TypeOK, QuestionInv, OneRound, NothingAfterDelete,
       Goto, First
  <2> QED
    BY <2>3, <2>4, <2>5, <2>6 DEF TalkInv
<1>7. ASSUME NEW t \in Turns, AppendRead(t) PROVE TalkInv'
  <2>1. PICK where \in PCs : Goto(t, where) /\ (pc[t] \in Behind => where \in Behind)
    BY <1>7 DEF AppendRead, PCs, Behind, First
  <2>2. /\ Cardinality(Appended)' \in Nat /\ Cardinality(Appended)' <= Cardinality(Turns)
        /\ Cardinality(Appended) <= Cardinality(Appended)'
    BY <2>1, AppendedGrows DEF TalkInv
  <2>3. TypeOK'
    BY <1>0, <1>7, <2>1 DEF AppendRead, IsMaxSeq, TalkInv, TypeOK, RowsOwned, RowsCounted, Goto,
       Limit
  <2>4. RowsCounted'
    BY <1>0, <1>7, <2>2 DEF AppendRead, IsMaxSeq, TalkInv, TypeOK, RowsCounted
  <2>5. RowsOwned' /\ Based' /\ AfterWhatItRead'
    BY <1>7, <2>1 DEF AppendRead, IsMaxSeq, TalkInv, TypeOK, RowsOwned, Based, AfterWhatItRead,
       Goto,
       Behind
  <2>6. QuestionInv' /\ OneRound' /\ NothingAfterDelete'
    BY <1>7 DEF AppendRead, IsMaxSeq, TalkInv, TypeOK, QuestionInv, OneRound, NothingAfterDelete,
       Goto, First
  <2> QED
    BY <2>3, <2>4, <2>5, <2>6 DEF TalkInv
<1>8. ASSUME NEW t \in Turns, SaveTrace(t) PROVE TalkInv'
  <2>1. PICK where \in PCs : Goto(t, where) /\ (pc[t] \in Behind => where \in Behind)
    BY <1>8 DEF SaveTrace, PCs, Behind, First
  <2>2. /\ Cardinality(Appended)' \in Nat /\ Cardinality(Appended)' <= Cardinality(Turns)
        /\ Cardinality(Appended) <= Cardinality(Appended)'
    BY <2>1, AppendedGrows DEF TalkInv
  <2>3. TypeOK'
    BY <1>0, <1>8, <2>1 DEF SaveTrace, TalkInv, TypeOK, RowsOwned, RowsCounted, Goto, Limit
  <2>4. RowsCounted'
    BY <1>0, <1>8, <2>2 DEF SaveTrace, TalkInv, TypeOK, RowsCounted
  <2>5. RowsOwned' /\ Based' /\ AfterWhatItRead'
    BY <1>8, <2>1 DEF SaveTrace, TalkInv, TypeOK, RowsOwned, Based, AfterWhatItRead, Goto,
       Behind
  <2>6. QuestionInv' /\ OneRound' /\ NothingAfterDelete'
    BY <1>8 DEF SaveTrace, TalkInv, TypeOK, QuestionInv, OneRound, NothingAfterDelete,
       Goto, First
  <2> QED
    BY <2>3, <2>4, <2>5, <2>6 DEF TalkInv
<1>9. ASSUME NEW t \in Turns, SetTitle(t) PROVE TalkInv'
  <2>1. PICK where \in PCs : Goto(t, where) /\ (pc[t] \in Behind => where \in Behind)
    BY <1>9 DEF SetTitle, PCs, Behind, First
  <2>2. /\ Cardinality(Appended)' \in Nat /\ Cardinality(Appended)' <= Cardinality(Turns)
        /\ Cardinality(Appended) <= Cardinality(Appended)'
    BY <2>1, AppendedGrows DEF TalkInv
  <2>3. TypeOK'
    BY <1>0, <1>9, <2>1 DEF SetTitle, TalkInv, TypeOK, RowsOwned, RowsCounted, Goto, Limit
  <2>4. RowsCounted'
    BY <1>0, <1>9, <2>2 DEF SetTitle, TalkInv, TypeOK, RowsCounted
  <2>5. RowsOwned' /\ Based' /\ AfterWhatItRead'
    BY <1>9, <2>1 DEF SetTitle, TalkInv, TypeOK, RowsOwned, Based, AfterWhatItRead, Goto,
       Behind
  <2>6. QuestionInv' /\ OneRound' /\ NothingAfterDelete'
    BY <1>9 DEF SetTitle, TalkInv, TypeOK, QuestionInv, OneRound, NothingAfterDelete,
       Goto, First
  <2> QED
    BY <2>3, <2>4, <2>5, <2>6 DEF TalkInv
<1>10. ASSUME NEW t \in Turns, Ledger(t) PROVE TalkInv'
  <2>1. PICK where \in PCs : Goto(t, where) /\ (pc[t] \in Behind => where \in Behind)
    BY <1>10 DEF Ledger, PCs, Behind, First
  <2>2. /\ Cardinality(Appended)' \in Nat /\ Cardinality(Appended)' <= Cardinality(Turns)
        /\ Cardinality(Appended) <= Cardinality(Appended)'
    BY <2>1, AppendedGrows DEF TalkInv
  <2>3. TypeOK'
    BY <1>0, <1>10, <2>1 DEF Ledger, Charge, TalkInv, TypeOK, RowsOwned, RowsCounted, Goto, Limit
  <2>4. RowsCounted'
    BY <1>0, <1>10, <2>2 DEF Ledger, Charge, TalkInv, TypeOK, RowsCounted
  <2>5. RowsOwned' /\ Based' /\ AfterWhatItRead'
    BY <1>10, <2>1 DEF Ledger, Charge, TalkInv, TypeOK, RowsOwned, Based, AfterWhatItRead, Goto,
       Behind
  <2>6. QuestionInv' /\ OneRound' /\ NothingAfterDelete'
    BY <1>10 DEF Ledger, Charge, TalkInv, TypeOK, QuestionInv, OneRound, NothingAfterDelete,
       Goto, First
  <2> QED
    BY <2>3, <2>4, <2>5, <2>6 DEF TalkInv
<1>11. ASSUME NEW t \in Turns, Crash(t) PROVE TalkInv'
  <2>1. PICK where \in PCs : Goto(t, where) /\ (pc[t] \in Behind => where \in Behind)
    BY <1>11 DEF Crash, PCs, Behind, First
  <2>2. /\ Cardinality(Appended)' \in Nat /\ Cardinality(Appended)' <= Cardinality(Turns)
        /\ Cardinality(Appended) <= Cardinality(Appended)'
    BY <2>1, AppendedGrows DEF TalkInv
  <2>3. TypeOK'
    BY <1>0, <1>11, <2>1 DEF Crash, TalkInv, TypeOK, RowsOwned, RowsCounted, Goto, Limit
  <2>4. RowsCounted'
    BY <1>0, <1>11, <2>2 DEF Crash, TalkInv, TypeOK, RowsCounted
  <2>5. RowsOwned' /\ Based' /\ AfterWhatItRead'
    BY <1>11, <2>1 DEF Crash, TalkInv, TypeOK, RowsOwned, Based, AfterWhatItRead, Goto,
       Behind
  <2>6. QuestionInv' /\ OneRound' /\ NothingAfterDelete'
    BY <1>11 DEF Crash, TalkInv, TypeOK, QuestionInv, OneRound, NothingAfterDelete,
       Goto, First
  <2> QED
    BY <2>3, <2>4, <2>5, <2>6 DEF TalkInv
<1>12. ASSUME NEW t \in Turns, AppendCommit(t) PROVE TalkInv'
  <2>1. PICK where \in {"trace", "ledger"} : Goto(t, where) /\ where \in PCs
    BY <1>12 DEF AppendCommit, PCs
  <2>2. /\ Cardinality(Appended)' \in Nat /\ Cardinality(Appended)' <= Cardinality(Turns)
        /\ Cardinality(Appended)' = Cardinality(Appended) + 1
    BY <1>12, <2>1, AppendedGrows DEF TalkInv, AppendCommit, Behind
  <2>3. PICK k \in 0..2 :
          /\ nextId' = nextId + k
          /\ \A m \in messages' \ messages :
               /\ m.id \in nextId..(nextId + k - 1) /\ m.seq \in (base[t] + 1)..(base[t] + 2)
               /\ m.role \in {"user", "assistant"} /\ m.of = t /\ m.from \in {0, from[t]}
    <3>1. CASE ~exists
      BY <1>12, <3>1 DEF AppendCommit, TalkInv, TypeOK
    <3>2. CASE exists /\ from[t] # 0
      <4>1. /\ messages' = messages \cup {Row(t, "assistant", 0)}
            /\ nextId' = nextId + Cardinality({Row(t, "assistant", 0)})
        BY <1>12, <3>2 DEF AppendCommit
      <4>2. nextId' = nextId + 1
        BY <4>1, FS_Singleton
      <4> QED
        BY <4>1, <4>2 DEF Row, TalkInv, TypeOK
    <3>3. CASE exists /\ from[t] = 0
      <4> DEFINE q == Row(t, "user", 0)
                 a == Row(t, "assistant", 1)
      <4>1. messages' = messages \cup {q, a} /\ nextId' = nextId + Cardinality({q, a})
        BY <1>12, <3>3 DEF AppendCommit
      <4>2. q # a
        BY DEF Row
      <4>3. Cardinality({q, a}) = 2
        <5>1. {q, a} = {q} \cup {a} /\ a \notin {q}
          BY <4>2
        <5> HIDE DEF q, a
        <5> QED
          <6>1. IsFiniteSet({q}) /\ Cardinality({q}) = 1
            BY FS_Singleton
          <6>2. Cardinality({q} \cup {a}) = Cardinality({q}) + 1
            BY <5>1, <6>1, FS_AddElement
          <6> QED
            BY <5>1, <6>1, <6>2
      <4> QED
        BY <4>1, <4>3 DEF Row, TalkInv, TypeOK
    <3> QED
      BY <3>1, <3>2, <3>3 DEF TalkInv, TypeOK
  <2>4. /\ messages \subseteq messages' /\ pc[t] = "appending"
        /\ UNCHANGED <<exists, title, traces, pending, spend, from, answers, saw, base>>
        /\ messages' # messages => exists
    BY <1>12 DEF AppendCommit
  <2>5. TypeOK'
    BY <1>0, <2>1, <2>2, <2>3, <2>4 DEF TalkInv, TypeOK, RowsCounted, Goto, Limit
  <2>6. RowsCounted'
    BY <1>0, <2>2, <2>3, <2>4 DEF TalkInv, TypeOK, RowsCounted
  <2>7. RowsOwned' /\ Based'
    BY <2>1, <2>3, <2>4 DEF TalkInv, TypeOK, RowsOwned, Based, Goto, Behind
  <2>8. AfterWhatItRead'
    BY <2>3, <2>4 DEF TalkInv, TypeOK, RowsOwned, Based, AfterWhatItRead, Behind
  <2>9. QuestionInv' /\ OneRound' /\ NothingAfterDelete'
    BY <2>1, <2>4 DEF TalkInv, TypeOK, QuestionInv, OneRound, NothingAfterDelete, Goto
  <2> QED
    BY <2>5, <2>6, <2>7, <2>8, <2>9 DEF TalkInv
<1>13. CASE Rename
  <2>1. Appended' = Appended
    BY <1>13 DEF Rename, Appended
  <2>2. TypeOK'
    BY <1>13 DEF Rename, TalkInv, TypeOK
  <2>3. RowsCounted' /\ RowsOwned' /\ Based' /\ AfterWhatItRead'
    BY <1>13, <2>1 DEF Rename, TalkInv, TypeOK, RowsCounted, RowsOwned, Based,
       AfterWhatItRead
  <2>4. QuestionInv' /\ OneRound' /\ NothingAfterDelete'
    BY <1>13 DEF Rename, TalkInv, TypeOK, QuestionInv, OneRound, NothingAfterDelete
  <2> QED
    BY <2>2, <2>3, <2>4 DEF TalkInv
<1>14. CASE Delete
  <2>1. Appended' = Appended
    BY <1>14 DEF Delete, Appended
  <2>2. TypeOK'
    BY <1>14 DEF Delete, TalkInv, TypeOK
  <2>3. RowsCounted' /\ RowsOwned' /\ Based' /\ AfterWhatItRead'
    BY <1>14, <2>1 DEF Delete, TalkInv, TypeOK, RowsCounted, RowsOwned, Based,
       AfterWhatItRead
  <2>4. QuestionInv' /\ OneRound' /\ NothingAfterDelete'
    BY <1>14 DEF Delete, TalkInv, TypeOK, QuestionInv, OneRound, NothingAfterDelete
  <2> QED
    BY <2>2, <2>3, <2>4 DEF TalkInv
<1>15. CASE UNCHANGED vars
  <2>1. Appended' = Appended
    BY <1>15 DEF vars, Appended
  <2>2. TypeOK'
    BY <1>15 DEF vars, TalkInv, TypeOK
  <2>3. RowsCounted' /\ RowsOwned' /\ Based' /\ AfterWhatItRead'
    BY <1>15, <2>1 DEF vars, TalkInv, TypeOK, RowsCounted, RowsOwned, Based,
       AfterWhatItRead
  <2>4. QuestionInv' /\ OneRound' /\ NothingAfterDelete'
    BY <1>15 DEF vars, TalkInv, TypeOK, QuestionInv, OneRound, NothingAfterDelete
  <2> QED
    BY <2>2, <2>3, <2>4 DEF TalkInv
<1>16. ASSUME NEW p \in Turns, Expire(p) PROVE TalkInv'
  <2>1. Appended' = Appended
    BY <1>16 DEF Expire, Appended
  <2>2. TypeOK'
    BY <1>16 DEF Expire, TalkInv, TypeOK
  <2>3. RowsCounted' /\ RowsOwned' /\ Based' /\ AfterWhatItRead'
    BY <1>16, <2>1 DEF Expire, TalkInv, TypeOK, RowsCounted, RowsOwned, Based,
       AfterWhatItRead
  <2>4. QuestionInv' /\ OneRound' /\ NothingAfterDelete'
    BY <1>16 DEF Expire, TalkInv, TypeOK, QuestionInv, OneRound, NothingAfterDelete
  <2> QED
    BY <2>2, <2>3, <2>4 DEF TalkInv
<1> QED
  BY <1>1, <1>2, <1>3, <1>4, <1>5, <1>6, <1>7, <1>8, <1>9, <1>10, <1>11, <1>12, <1>13, <1>14,
     <1>15, <1>16
     DEF Next

LEMMA TalkInvariant == Spec => []TalkInv
  BY TalkInit, TalkNext, PTL DEF Spec

\* However the turns of a conversation interleave (_append_sync, _delete_sync,
\* _resolve_clarification_sync), its transcript is in order, a question back is answered
\* once, and nothing comes back after a delete.
THEOREM TranscriptInOrder == Spec => []TranscriptKept
<1>1. TalkInv => TranscriptKept
  BY DEF TalkInv, TranscriptKept
<1> QED
  BY TalkInvariant, <1>1, PTL

\* No turn replaces the name its owner chose (_set_title_if_unset_sync).
THEOREM ChosenTitleStays == Spec => ChosenTitleKept
<1>1. [Next]_vars => [title = "chosen" => title' = "chosen"]_vars
  BY DEF Next, vars, db, Rename, Delete, Ask, Claim, Regenerate, Read, Gate, Answer,
     Charge, AppendRead, AppendCommit, SaveTrace, SetTitle, Ledger, Crash, Expire
<1> QED
  BY <1>1, PTL DEF Spec, ChosenTitleKept

-----------------------------------------------------------------------------
(* Accounts.                                                               *)

\* Counting is the same inside the instance.
LEMMA DeskCounts ==
  ASSUME NEW S PROVE Desk!Cardinality(S) = Cardinality(S)
  BY DEF Desk!Cardinality, Cardinality

AccountRow == [email : Emails, role : Desk!Roles, enabled : BOOLEAN, epoch : 0..MaxEpoch]

\* The table's own constraints: ids are never reused, an address has one account.
UsersKept ==
  /\ users \in [DOMAIN users -> AccountRow]
  /\ DOMAIN users \subseteq created /\ created \subseteq People
  /\ \A u, v \in DOMAIN users : users[u].email = users[v].email => u = v

\* What is written in an account's name stays with it, unless a change went astray.
RowsKept ==
  /\ rows \subseteq [author : People, email : Emails, late : BOOLEAN]
  /\ \A x \in rows : x.author \in created
  /\ Desk!RowsFollow

\* A token is never ahead of its account; while it is level the account has kept the
\* role, and, if the token ever worked, was not disabled.
TokenKept(t) ==
  /\ t \in Desk!Tokens /\ t.user \in created
  /\ t.user \in DOMAIN users =>
       /\ t.epoch <= users[t.user].epoch
       /\ t.epoch = users[t.user].epoch =>
            t.role = users[t.user].role /\ (t.live => users[t.user].enabled)

TokensKept ==
  /\ IsFiniteSet(tokens) /\ Cardinality(tokens) <= MaxTokens
  /\ \A t \in tokens : TokenKept(t)

\* A request carries what it was let in with.
Flight ==
  [at : Desk!States \ {"idle"}, user : People, email : Emails,
   role : Desk!Roles, session : Desk!Tokens, sure : BOOLEAN,
   op : {"none"} \cup Desk!AdminOps \cup Desk!OwnOps, target : People]

RequestsKept ==
  /\ req \in [Requests -> {Desk!Idle} \cup Flight]
  /\ \A r \in Requests : req[r] # Desk!Idle => req[r].user \in created

\* A session this worker refused is behind its account, and what the worker remembers
\* of the address says so.
RefusedKept ==
  /\ refused \subseteq tokens
  /\ \A t \in refused :
       /\ known[t.email] \notin {Desk!Unknown, t.epoch}
       /\ t.user \in DOMAIN users => t.epoch < users[t.user].epoch

\* While no two guards have overlapped and every admin taken was counted, a guard that
\* counted still leaves another admin, and is the only one.
GuardsApart ==
  ~overlapped =>
    /\ Desk!Admins # {}
    /\ \A r \in Requests : req[r].at = "counted" =>
         /\ Desk!OtherAdmins(req[r].target) # {}
         /\ \A s \in Requests \ {r} : req[s].at # "counted"

WorkerKept ==
  /\ known \in [Emails -> {Desk!Gone, Desk!Unknown} \cup 0..MaxEpoch]
  /\ postgres \in BOOLEAN /\ calls \in 0..MaxCalls
  /\ overlapped \in BOOLEAN /\ crossed \in BOOLEAN

DeskInv ==
  /\ UsersKept /\ RowsKept /\ TokensKept /\ RequestsKept /\ WorkerKept /\ RefusedKept
  /\ GuardsApart

\* A change that went astray stays one.
Later == crossed => crossed'

\* What an operation on the table may do: nothing already promised is taken back, and
\* only the accounts in `changed' may stop being admins.
TableStep(changed) ==
  /\ UsersKept' /\ RowsKept' /\ created \subseteq created'
  /\ \A t \in Desk!Tokens : TokenKept(t) => TokenKept(t)'
  /\ \A t \in Desk!Tokens :
       (t.user \in created /\ (t.user \in DOMAIN users => t.epoch < users[t.user].epoch)) =>
         (t.user \in DOMAIN users' => t.epoch < users'[t.user].epoch)
  /\ Desk!Admins \ changed \subseteq Desk!Admins'

\* A deployment starts with two admins, and nobody signed in.
LEMMA DeskInit == Desk!Init => DeskInv
<1> SUFFICES ASSUME Desk!Init PROVE DeskInv
  OBVIOUS
<1> USE DeskAssumption
<1>1. PICK u, v \in People, d, e \in Emails :
        /\ u # v /\ d # e /\ created = {u, v}
        /\ users = [w \in {u, v} |-> [email |-> IF w = u THEN d ELSE e, role |-> "admin",
                                      enabled |-> TRUE, epoch |-> 0]]
  BY DEF Desk!Init
<1>2. /\ tokens = {} /\ rows = {} /\ known = [x \in Emails |-> Desk!Unknown] /\ refused = {}
      /\ postgres = TRUE /\ req = [r \in Requests |-> Desk!Idle] /\ calls = 0
      /\ overlapped = FALSE /\ crossed = FALSE
  BY DEF Desk!Init
<1>3. UsersKept
  BY <1>1 DEF UsersKept, AccountRow, Desk!Roles
<1>4. RowsKept /\ TokensKept /\ RequestsKept /\ WorkerKept /\ RefusedKept
  <2>1. RowsKept /\ RefusedKept
    BY <1>2 DEF RowsKept, Desk!RowsFollow, RefusedKept
  <2>2. TokensKept
    BY <1>2, FS_EmptySet DEF TokensKept
  <2>3. RequestsKept
    BY <1>2 DEF RequestsKept
  <2>4. WorkerKept
    <3>1. Desk!Unknown \in {Desk!Gone, Desk!Unknown} \cup 0..MaxEpoch
      OBVIOUS
    <3>2. 0 \in 0..MaxCalls
      OBVIOUS
    <3>3. TRUE \in BOOLEAN /\ FALSE \in BOOLEAN
      OBVIOUS
    <3> QED
      BY ONLY <1>2, <3>1, <3>2, <3>3 DEF WorkerKept
  <2> QED
    BY <2>1, <2>2, <2>3, <2>4
<1>5. GuardsApart
  <2>1. u \in Desk!Admins
    BY <1>1 DEF Desk!Admins
  <2>2. \A r \in Requests : req[r].at = "idle"
    BY <1>2 DEF Desk!Idle
  <2> QED
    BY <2>1, <2>2 DEF GuardsApart
<1> QED
  BY <1>3, <1>4, <1>5 DEF DeskInv

\* A new account has a new id and a free address, and owns nothing.
LEMMA CreateKeeps ==
  ASSUME UsersKept, RowsKept, Later, NEW u \in People, NEW e \in Emails,
         NEW role \in Desk!Roles, Desk!CreateUser(u, e, role)
  PROVE  TableStep({})
<1> USE DeskAssumption
<1>1. /\ u \notin created /\ u \notin DOMAIN users /\ created' = created \cup {u}
      /\ \A v \in DOMAIN users : users[v].email # e
      /\ DOMAIN users' = DOMAIN users \cup {u}
      /\ users'[u] = [email |-> e, role |-> role, enabled |-> TRUE, epoch |-> 0]
      /\ \A v \in DOMAIN users : users'[v] = users[v]
      /\ rows' = {x \in rows : x.email # e}
      /\ users' = [v \in DOMAIN users \cup {u} |-> users'[v]]
  BY DEF Desk!CreateUser, Desk!Holder, UsersKept
<1>2. UsersKept'
  <2>1. users'[u] \in AccountRow
    BY <1>1 DEF AccountRow
  <2>2. users' \in [DOMAIN users' -> AccountRow]
    BY <1>1, <2>1 DEF UsersKept
  <2> QED
    BY <1>1, <2>2 DEF UsersKept
<1>3. RowsKept'
  BY <1>1 DEF RowsKept, Desk!RowsFollow, Desk!Owned, Later, UsersKept
<1>4. \A t \in Desk!Tokens : TokenKept(t) => TokenKept(t)'
  BY <1>1 DEF TokenKept
<1>5. Desk!Admins \subseteq Desk!Admins'
  BY <1>1 DEF Desk!Admins
<1> QED
  BY <1>1, <1>2, <1>3, <1>4, <1>5 DEF TableStep

\* A change of role, state or password; one that takes a right cuts the sessions.
LEMMA UpdateKeeps ==
  ASSUME UsersKept, RowsKept, Later, NEW u \in DOMAIN users, NEW role \in Desk!Roles,
         NEW enabled \in BOOLEAN, NEW epoch \in 0..MaxEpoch,
         users' = [users EXCEPT ![u] = [email |-> users[u].email, role |-> role,
                                        enabled |-> enabled, epoch |-> epoch]],
         \/ epoch = users[u].epoch + 1
         \/ epoch = users[u].epoch /\ role = users[u].role /\ enabled = TRUE,
         UNCHANGED <<created, rows>>
  PROVE  /\ TableStep({u}) /\ u \in DOMAIN users'
         /\ users'[u].role = role /\ users'[u].enabled = enabled
<1> USE DeskAssumption
<1>1. /\ DOMAIN users' = DOMAIN users /\ users[u] \in AccountRow
      /\ users'[u] = [email |-> users[u].email, role |-> role, enabled |-> enabled,
                      epoch |-> epoch]
      /\ \A v \in DOMAIN users \ {u} : users'[v] = users[v]
      /\ users' = [v \in DOMAIN users |-> users'[v]]
      /\ UNCHANGED <<created, rows>>
  BY DEF UsersKept
<1>2. users'[u] \in AccountRow /\ users'[u].email = users[u].email
  BY <1>1 DEF AccountRow
<1>3. UsersKept'
  BY <1>1, <1>2 DEF UsersKept
<1>4. RowsKept'
  BY <1>1, <1>2 DEF RowsKept, Desk!RowsFollow, Desk!Owned, Later, UsersKept
<1>5. \A t \in Desk!Tokens : TokenKept(t) => TokenKept(t)'
  BY <1>1 DEF TokenKept, AccountRow, Desk!Tokens
<1>6. Desk!Admins \ {u} \subseteq Desk!Admins'
  BY <1>1 DEF Desk!Admins
<1>7. ASSUME NEW t \in Desk!Tokens, t.user \in DOMAIN users => t.epoch < users[t.user].epoch
      PROVE  t.user \in DOMAIN users' => t.epoch < users'[t.user].epoch
  BY <1>1, <1>7 DEF AccountRow, Desk!Tokens
<1> QED
  BY <1>1, <1>2, <1>3, <1>4, <1>5, <1>6, <1>7 DEF TableStep

\* A change of address that finds its account takes along what the account owns, and
\* nothing else; any other moves rows only.
LEMMA SetEmailKeeps ==
  ASSUME UsersKept, RowsKept, Later, NEW u \in People, NEW old \in Emails,
         NEW e \in Emails \ {old}, Desk!SetEmail(u, old, e),
         ~crossed' => u \in DOMAIN users /\ users[u].email = old
  PROVE  /\ TableStep({}) /\ DOMAIN users' = DOMAIN users
         /\ Desk!Admins \subseteq Desk!Admins'
<1> USE DeskAssumption
<1>1. CASE u \in DOMAIN users
  <2>1. /\ DOMAIN users' = DOMAIN users /\ users[u] \in AccountRow
        /\ users'[u] = [email |-> e, role |-> users[u].role, enabled |-> users[u].enabled,
                        epoch |-> users[u].epoch + 1]
        /\ users[u].epoch < MaxEpoch
        /\ \A v \in DOMAIN users : users[v].email = e => v = u
        /\ \A v \in DOMAIN users \ {u} : users'[v] = users[v]
        /\ users' = [v \in DOMAIN users |-> users'[v]]
        /\ created' = created
    BY <1>1 DEF Desk!SetEmail, UsersKept, AccountRow, Desk!Holder
  <2>2. users'[u] \in AccountRow
    BY <2>1 DEF AccountRow
  <2>3. UsersKept'
    BY <2>1, <2>2 DEF UsersKept
  <2>4. \A t \in Desk!Tokens : TokenKept(t) => TokenKept(t)'
    BY <2>1 DEF TokenKept, AccountRow, Desk!Tokens
  <2>5. Desk!Admins \subseteq Desk!Admins'
    BY <2>1 DEF Desk!Admins
  <2>6. ASSUME NEW t \in Desk!Tokens,
               t.user \in DOMAIN users => t.epoch < users[t.user].epoch
        PROVE  t.user \in DOMAIN users' => t.epoch < users'[t.user].epoch
    BY <2>1, <2>6 DEF AccountRow, Desk!Tokens
  <2>7. ASSUME NEW x \in rows'
        PROVE  /\ x \in [author : People, email : Emails, late : BOOLEAN]
               /\ x.author \in created
               /\ ~crossed' /\ ~x.late =>
                    x.author \in DOMAIN users' /\ x.email = users'[x.author].email
    <3>1. CASE x \in rows /\ x.email \notin {e, old}
      BY <2>1, <3>1 DEF RowsKept, Desk!RowsFollow, Desk!Owned, Later
    <3>2. CASE \E y \in rows : y.email = old /\ x = [y EXCEPT !.email = e]
      <4>1. PICK y \in rows : y.email = old /\ x = [y EXCEPT !.email = e]
        BY <3>2
      <4>2. /\ y \in [author : People, email : Emails, late : BOOLEAN]
            /\ x \in [author : People, email : Emails, late : BOOLEAN]
            /\ x.author = y.author /\ x.late = y.late /\ x.email = e
            /\ y.author \in created
        BY <4>1 DEF RowsKept
      <4>3. ~crossed' /\ ~y.late => y.author = u
        BY <4>1, <1>1 DEF RowsKept, Desk!RowsFollow, Desk!Owned, UsersKept, Later
      <4> QED
        BY <2>1, <4>1, <4>2, <4>3, <1>1
    <3> QED
      BY <2>7, <3>1, <3>2 DEF Desk!SetEmail, Desk!Reassign
  <2>8. RowsKept'
    BY <2>1, <2>7 DEF RowsKept, Desk!RowsFollow, Desk!Owned
  <2> QED
    BY <2>1, <2>3, <2>4, <2>5, <2>6, <2>8 DEF TableStep
<1>2. CASE u \notin DOMAIN users
  <2>1. users' = users /\ created' = created /\ crossed'
    BY <1>2 DEF Desk!SetEmail
  <2>2. ASSUME NEW x \in rows'
        PROVE  x \in [author : People, email : Emails, late : BOOLEAN] /\ x.author \in created
    <3>1. CASE x \in rows
      BY <3>1 DEF RowsKept
    <3>2. CASE \E y \in rows : x = [y EXCEPT !.email = e]
      BY <3>2 DEF RowsKept
    <3> QED
      BY <2>2, <3>1, <3>2 DEF Desk!SetEmail, Desk!Reassign
  <2>3. RowsKept'
    BY <2>1, <2>2 DEF RowsKept, Desk!RowsFollow
  <2> QED
    BY <2>1, <2>3 DEF TableStep, UsersKept, TokenKept, Desk!Admins
<1> QED
  BY <1>1, <1>2

\* A deleted account takes what its address owned with it.
LEMMA DeleteKeeps ==
  ASSUME UsersKept, RowsKept, Later, NEW u \in People, NEW old \in Emails,
         Desk!DeleteUser(u, old), ~crossed' => u \in DOMAIN users /\ users[u].email = old
  PROVE  TableStep({u}) /\ DOMAIN users' = DOMAIN users \ {u}
<1>1. /\ DOMAIN users' = DOMAIN users \ {u} /\ created' = created
      /\ rows' = {x \in rows : x.email # old}
      /\ \A v \in DOMAIN users \ {u} : users'[v] = users[v]
      /\ users' = [v \in DOMAIN users \ {u} |-> users'[v]]
  BY DEF Desk!DeleteUser
<1>2. UsersKept'
  BY <1>1 DEF UsersKept
<1>3. RowsKept'
  <2>1. ASSUME NEW x \in rows', ~crossed', ~x.late
        PROVE  x.author \in DOMAIN users' /\ x.email = users'[x.author].email
    BY <1>1, <2>1 DEF RowsKept, Desk!RowsFollow, Desk!Owned, Later
  <2> QED
    BY <1>1, <2>1 DEF RowsKept, Desk!RowsFollow, Desk!Owned
<1>4. \A t \in Desk!Tokens : TokenKept(t) => TokenKept(t)'
  BY <1>1 DEF TokenKept
<1>5. Desk!Admins \ {u} \subseteq Desk!Admins'
  BY <1>1 DEF Desk!Admins
<1> QED
  BY <1>1, <1>2, <1>3, <1>4, <1>5 DEF TableStep

\* The same of the statement the operations share.
LEMMA OperationKeeps ==
  ASSUME UsersKept, RowsKept, Later, NEW u \in DOMAIN users, NEW role \in Desk!Roles,
         NEW enabled \in BOOLEAN, NEW cuts \in BOOLEAN, Desk!Update(u, role, enabled, cuts),
         cuts \/ (role = users[u].role /\ enabled = TRUE)
  PROVE  /\ TableStep({u}) /\ u \in DOMAIN users'
         /\ users'[u].role = role /\ users'[u].enabled = enabled
<1> USE DeskAssumption
<1>1. users[u].epoch \in 0..MaxEpoch
  BY DEF UsersKept, AccountRow
<1>2. PICK epoch \in 0..MaxEpoch :
        /\ users' = [users EXCEPT ![u] = [email |-> users[u].email, role |-> role,
                                          enabled |-> enabled, epoch |-> epoch]]
        /\ \/ cuts /\ epoch = users[u].epoch + 1
           \/ ~cuts /\ epoch = users[u].epoch
        /\ UNCHANGED <<created, rows>>
  <2>1. CASE cuts
    <3>1. users[u].epoch + (IF cuts THEN 1 ELSE 0) = users[u].epoch + 1
      BY <2>1
    <3>2. users[u].epoch + 1 \in 0..MaxEpoch
      BY <1>1, <2>1 DEF Desk!Update
    <3> QED
      BY <2>1, <3>1, <3>2 DEF Desk!Update
  <2>2. CASE ~cuts
    <3>1. users[u].epoch + (IF cuts THEN 1 ELSE 0) = users[u].epoch
      BY <1>1, <2>2
    <3> QED
      BY <1>1, <2>2, <3>1 DEF Desk!Update
  <2> QED
    BY <2>1, <2>2
<1> QED
  BY <1>2, UpdateKeeps

\* A step that leaves the table alone.
LEMMA TableStill ==
  ASSUME UsersKept, RowsKept, Later, UNCHANGED <<users, created, rows>>
  PROVE  TableStep({})
  BY DEF TableStep, UsersKept, RowsKept, Desk!RowsFollow, Desk!Owned, Later, TokenKept,
         Desk!Admins

\* The tokens stay behind the table, also the one a step issues.
LEMMA IssueKeeps ==
  ASSUME DeskInv, NEW changed, TableStep(changed),
         \/ tokens' = tokens
         \/ \E u \in DOMAIN users' : Desk!Issue(u, users'[u])
  PROVE  TokensKept' /\ tokens \subseteq tokens'
<1> USE DeskAssumption
<1>1. /\ IsFiniteSet(tokens) /\ Cardinality(tokens) <= MaxTokens
      /\ Cardinality(tokens) \in Nat
      /\ \A t \in tokens : TokenKept(t)'
  BY FS_CardinalityType DEF DeskInv, TokensKept, TableStep, TokenKept
<1>2. CASE tokens' = tokens
  BY <1>1, <1>2 DEF TokensKept
<1>3. ASSUME NEW u \in DOMAIN users', Desk!Issue(u, users'[u]), tokens' # tokens
      PROVE  TokensKept' /\ tokens \subseteq tokens'
  <2>1. PICK t : t = [user |-> u, email |-> users'[u].email, role |-> users'[u].role,
                      epoch |-> users'[u].epoch, live |-> users'[u].enabled]
    OBVIOUS
  <2>2. tokens' = tokens \cup {t} /\ Cardinality(tokens) # MaxTokens
    BY <1>3, <2>1, DeskCounts DEF Desk!Issue
  <2>3. IsFiniteSet(tokens') /\ Cardinality(tokens') <= MaxTokens
    <3>1. t \notin tokens
      BY <1>3, <2>2
    <3>2. IsFiniteSet(tokens') /\ Cardinality(tokens') = Cardinality(tokens) + 1
      BY ONLY <1>1, <2>2, <3>1, FS_AddElement
    <3> QED
      BY <1>1, <2>2, <3>2
  <2>4. users'[u] \in AccountRow /\ u \in created' /\ u \in People
    BY DEF TableStep, UsersKept
  <2>5. TokenKept(t)'
    BY <2>1, <2>4 DEF TokenKept, Desk!Tokens, AccountRow
  <2> QED
    BY <1>1, <2>2, <2>3, <2>5 DEF TokensKept
<1> QED
  BY <1>2, <1>3

\* What a worker refused stays refused while its memory is as it was.
LEMMA RefusedLater ==
  ASSUME DeskInv, NEW changed, TableStep(changed), tokens \subseteq tokens',
         UNCHANGED <<known, refused>>
  PROVE  RefusedKept'
<1>1. ASSUME NEW t \in refused
      PROVE  /\ t \in Desk!Tokens /\ t.user \in created
             /\ t.user \in DOMAIN users' => t.epoch < users'[t.user].epoch
  <2>1. t \in Desk!Tokens /\ TokenKept(t) /\ t.user \in created
    BY DEF DeskInv, RefusedKept, TokensKept, TokenKept
  <2> QED
    BY <2>1 DEF DeskInv, RefusedKept, TableStep
<1> QED
  BY <1>1 DEF DeskInv, RefusedKept

\* No request begins to count, and no admin is lost.
LEMMA GuardsLater ==
  ASSUME DeskInv, Desk!Admins \subseteq Desk!Admins', overlapped => overlapped',
         \A r \in Requests : req'[r].at = "counted" =>
           req[r].at = "counted" /\ req'[r].target = req[r].target
  PROVE  GuardsApart'
  BY DEF DeskInv, GuardsApart, Desk!OtherAdmins

\* What an accepted operation does to the table, and when it may cost an admin.
LEMMA ApplyKeeps ==
  ASSUME DeskInv, NEW r \in Requests, Desk!Apply(r)
  PROVE  /\ TableStep({req[r].target}) /\ Later
         /\ (tokens' = tokens \/ \E u \in DOMAIN users' : Desk!Issue(u, users'[u]))
         /\ ~(req[r].target \in DOMAIN users /\ Desk!Takes(req[r].op, req[r].target)) =>
              Desk!Admins \subseteq Desk!Admins'
<1> DEFINE op == req[r].op
           u == req[r].target
<1> USE DeskAssumption
<1>0. UsersKept /\ RowsKept /\ Later
  BY DEF DeskInv, Desk!Apply, Later
<1>00. u \in People /\ req[r].email \in Emails
  <2>1. req[r].at # "idle"
    BY DEF Desk!Apply
  <2> QED
    BY <2>1 DEF DeskInv, RequestsKept, Flight, Desk!Idle
<1>1. CASE \E v \in People, e \in Emails, role \in Desk!Roles :
             Desk!CreateUser(v, e, role) /\ tokens' = tokens
  BY <1>0, <1>1, CreateKeeps DEF TableStep
<1>2. CASE UNCHANGED <<users, created, rows, tokens>>
  BY <1>0, <1>2, TableStill DEF TableStep
<1>3. ASSUME u \in DOMAIN users, op = "demote", Desk!SetRole(u, "researcher"),
             tokens' = tokens
      PROVE  /\ TableStep({u})
             /\ ~Desk!Takes(op, u) => Desk!Admins \subseteq Desk!Admins'
  <2>0. /\ users[u].role \in Desk!Roles /\ users[u].enabled \in BOOLEAN
        /\ users[u].epoch \in 0..MaxEpoch
    BY <1>0, <1>3 DEF UsersKept, AccountRow
  <2>1. Desk!Update(u, "researcher", users[u].enabled, TRUE)
    BY <1>3 DEF Desk!SetRole
  <2>2. TableStep({u})
    BY <1>0, <1>3, <2>0, <2>1, OperationKeeps DEF Desk!Roles
  <2> QED
    BY <1>3, <2>2 DEF TableStep, Desk!Takes, Desk!Admins
<1>4. ASSUME u \in DOMAIN users, op = "promote", Desk!SetRole(u, "admin"), tokens' = tokens
      PROVE  TableStep({u}) /\ Desk!Admins \subseteq Desk!Admins'
  <2>0. /\ users[u].role \in Desk!Roles /\ users[u].enabled \in BOOLEAN
        /\ users[u].epoch \in 0..MaxEpoch
    BY <1>0, <1>4 DEF UsersKept, AccountRow
  <2>1. Desk!Update(u, "admin", users[u].enabled, TRUE)
    BY <1>4 DEF Desk!SetRole
  <2>2. /\ TableStep({u}) /\ u \in DOMAIN users'
        /\ users'[u].role = "admin" /\ users'[u].enabled = users[u].enabled
    BY <1>0, <1>4, <2>0, <2>1, OperationKeeps DEF Desk!Roles
  <2> QED
    BY <2>2 DEF TableStep, Desk!Admins
<1>5. ASSUME u \in DOMAIN users, op \in {"disable", "enable"},
             Desk!SetDisabled(u, op = "disable"), tokens' = tokens
      PROVE  /\ TableStep({u})
             /\ ~Desk!Takes(op, u) => Desk!Admins \subseteq Desk!Admins'
  <2>0. /\ users[u].role \in Desk!Roles /\ users[u].enabled \in BOOLEAN
        /\ users[u].epoch \in 0..MaxEpoch
    BY <1>0, <1>5 DEF UsersKept, AccountRow
  <2>2. CASE op = "disable"
    <3>1. Desk!Update(u, users[u].role, FALSE, TRUE)
      BY <1>5, <2>2 DEF Desk!SetDisabled
    <3>2. TableStep({u})
      BY <1>0, <1>5, <2>0, <3>1, OperationKeeps
    <3> QED
      BY <2>2, <3>2 DEF TableStep, Desk!Takes, Desk!Admins
  <2>3. CASE op = "enable"
    <3>1. Desk!Update(u, users[u].role, TRUE, FALSE)
      BY <1>5, <2>3 DEF Desk!SetDisabled
    <3>2. /\ TableStep({u}) /\ u \in DOMAIN users'
          /\ users'[u].role = users[u].role /\ users'[u].enabled = TRUE
      BY <1>0, <1>5, <2>0, <3>1, OperationKeeps, Zenon
    <3> QED
      BY <3>2 DEF TableStep, Desk!Admins
  <2> QED
    BY <1>5, <2>2, <2>3
<1>6. ASSUME u \in DOMAIN users, Desk!SetPassword(u)
      PROVE  /\ TableStep({u}) /\ Desk!Admins \subseteq Desk!Admins' /\ u \in DOMAIN users'
  <2>0. /\ users[u].role \in Desk!Roles /\ users[u].enabled \in BOOLEAN
        /\ users[u].epoch \in 0..MaxEpoch
    BY <1>0, <1>6 DEF UsersKept, AccountRow
  <2>1. Desk!Update(u, users[u].role, users[u].enabled, TRUE)
    BY <1>6 DEF Desk!SetPassword
  <2>2. ASSUME NEW role \in Desk!Roles, NEW enabled \in BOOLEAN,
               Desk!Update(u, role, enabled, TRUE)
        PROVE  /\ TableStep({u}) /\ u \in DOMAIN users'
               /\ users'[u].role = role /\ users'[u].enabled = enabled
    BY <1>0, <1>6, <2>2, OperationKeeps DEF Desk!Roles
  <2>3. /\ TableStep({u}) /\ u \in DOMAIN users'
        /\ users'[u].role = users[u].role /\ users'[u].enabled = users[u].enabled
    BY <2>0, <2>1, <2>2
  <2> QED
    BY <2>3 DEF TableStep, Desk!Admins
<1>7. ASSUME op = "own_email", NEW e \in Emails \ {req[r].email},
             Desk!SetEmail(u, req[r].email, e)
      PROVE  /\ TableStep({u}) /\ Desk!Admins \subseteq Desk!Admins'
             /\ u \in DOMAIN users => u \in DOMAIN users'
  <2>1. ~crossed' => u \in DOMAIN users /\ users[u].email = req[r].email
    BY <1>7 DEF Desk!Apply, Desk!Astray, Desk!Holder
  <2> QED
    BY <1>0, <1>00, <1>7, <2>1, SetEmailKeeps DEF TableStep
<1>8. ASSUME op = "own_delete", Desk!DeleteUser(u, req[r].email), tokens' = tokens
      PROVE  /\ TableStep({u})
             /\ ~(u \in DOMAIN users /\ Desk!Takes(op, u)) => Desk!Admins \subseteq Desk!Admins'
  <2>1. ~crossed' => u \in DOMAIN users /\ users[u].email = req[r].email
    BY <1>8 DEF Desk!Apply, Desk!Astray, Desk!Holder
  <2>2. TableStep({u})
    BY <1>0, <1>00, <1>8, <2>1, DeleteKeeps
  <2> QED
    BY <1>8, <2>2 DEF TableStep, Desk!Takes, Desk!Admins
<1>9. \/ \E v \in People, e \in Emails, role \in Desk!Roles :
             Desk!CreateUser(v, e, role) /\ tokens' = tokens
      \/ UNCHANGED <<users, created, rows, tokens>>
      \/ /\ op = "own_email"
         /\ \E e \in Emails \ {req[r].email} : Desk!SetEmail(u, req[r].email, e)
         /\ IF u \in DOMAIN users THEN Desk!Issue(u, users'[u]) ELSE tokens' = tokens
      \/ op = "own_delete" /\ Desk!DeleteUser(u, req[r].email) /\ tokens' = tokens
      \/ /\ u \in DOMAIN users
         /\ \/ op = "demote" /\ Desk!SetRole(u, "researcher") /\ tokens' = tokens
            \/ op = "promote" /\ Desk!SetRole(u, "admin") /\ tokens' = tokens
            \/ op \in {"disable", "enable"} /\ Desk!SetDisabled(u, op = "disable")
                 /\ tokens' = tokens
            \/ Desk!SetPassword(u) /\ (tokens' = tokens \/ Desk!Issue(u, users'[u]))
  BY DEF Desk!Apply, Desk!table
<1> QED
  <2>1. CASE u \notin DOMAIN users
    BY <1>0, <1>1, <1>2, <1>7, <1>8, <1>9, <2>1
  <2>2. CASE u \in DOMAIN users
    BY <1>0, <1>1, <1>2, <1>3, <1>4, <1>5, <1>6, <1>7, <1>8, <1>9, <2>2
  <2> QED
    BY <2>1, <2>2

\* What a session check reads of an account that has the address.
LEMMA EpochIs ==
  ASSUME UsersKept, NEW e
  PROVE  /\ Desk!Epoch(e) \in {Desk!Gone} \cup 0..MaxEpoch
         /\ \A u \in DOMAIN users : users[u].email = e =>
              Desk!Epoch(e) = IF users[u].enabled THEN users[u].epoch ELSE Desk!Gone
<1> DEFINE live == {u \in Desk!Holder(e) : users[u].enabled}
<1>1. Desk!Epoch(e) = IF live = {} THEN Desk!Gone ELSE users[CHOOSE u \in live : TRUE].epoch
  BY DEF Desk!Epoch
<1>2. ASSUME live # {}
      PROVE  /\ (CHOOSE u \in live : TRUE) \in DOMAIN users
             /\ users[CHOOSE u \in live : TRUE].email = e
             /\ users[CHOOSE u \in live : TRUE].enabled
  BY <1>2 DEF Desk!Holder
<1>3. ASSUME NEW u \in DOMAIN users, users[u].email = e
      PROVE  Desk!Epoch(e) = IF users[u].enabled THEN users[u].epoch ELSE Desk!Gone
  <2>1. CASE users[u].enabled
    <3>1. u \in live
      BY <1>3, <2>1 DEF Desk!Holder
    <3>2. (CHOOSE v \in live : TRUE) = u
      BY <1>2, <1>3, <3>1 DEF UsersKept
    <3> QED
      BY <1>1, <2>1, <3>1, <3>2
  <2>2. CASE ~users[u].enabled
    <3>1. live = {}
      BY <1>3, <2>2 DEF UsersKept, Desk!Holder
    <3> QED
      BY <1>1, <2>2, <3>1
  <2> QED
    BY <2>1, <2>2
<1>4. Desk!Epoch(e) \in {Desk!Gone} \cup 0..MaxEpoch
  BY <1>1, <1>2 DEF UsersKept, AccountRow
<1> QED
  BY <1>3, <1>4

\* A session check of a worker: what it remembers, and what it refused.
LEMMA SessionKeeps ==
  ASSUME DeskInv, NEW r \in Requests, Desk!Session(r)
  PROVE  WorkerKept' /\ RefusedKept' /\ RequestsKept' /\ GuardsApart'
<1> USE DeskAssumption
<1>0. /\ UNCHANGED <<users, created, rows, tokens, postgres, overlapped, crossed>>
      /\ UsersKept /\ WorkerKept /\ RefusedKept /\ RequestsKept /\ GuardsApart
  BY DEF Desk!Session, Desk!table, Desk!races, DeskInv
<1> DEFINE Accepts(t) == IF postgres THEN Desk!Epoch(t.email) = t.epoch
                         ELSE known[t.email] \in {Desk!Unknown, t.epoch}
<1>1. PICK t \in tokens :
        /\ IF postgres THEN Desk!Remember(t.email, Desk!Epoch(t.email)) ELSE UNCHANGED known
        /\ refused' = {s \in refused : Desk!Still(s) /\ known'[s.email] # Desk!Unknown}
             \cup (IF postgres /\ ~Accepts(t) /\ t.live /\ Desk!Still(t) THEN {t} ELSE {})
        /\ req' = IF Accepts(t) THEN [req EXCEPT ![r] = Desk!InFlight(t, postgres)] ELSE req
  BY DEF Desk!Session
<1> HIDE DEF Accepts
<1>2. /\ t \in Desk!Tokens /\ TokenKept(t) /\ t.user \in created /\ t.email \in Emails
      /\ t.epoch \in 0..MaxEpoch
  BY DEF DeskInv, TokensKept, TokenKept, Desk!Tokens
<1>3. /\ Desk!Epoch(t.email) \in {Desk!Gone} \cup 0..MaxEpoch
      /\ \A u \in DOMAIN users : users[u].email = t.email =>
           Desk!Epoch(t.email) = IF users[u].enabled THEN users[u].epoch ELSE Desk!Gone
  BY <1>0, EpochIs
<1>4. /\ known' \in [Emails -> {Desk!Gone, Desk!Unknown} \cup 0..MaxEpoch]
      /\ postgres => known'[t.email] = Desk!Epoch(t.email)
      /\ \A d \in Emails : (d # t.email \/ ~postgres) => known'[d] \in {Desk!Unknown, known[d]}
  <2>1. CASE postgres
    BY <1>0, <1>1, <1>2, <1>3, <2>1 DEF Desk!Remember, WorkerKept
  <2>2. CASE ~postgres
    BY <1>0, <1>1, <2>2 DEF WorkerKept
  <2> QED
    BY <2>1, <2>2
<1>5. WorkerKept'
  BY <1>0, <1>4 DEF WorkerKept, Desk!Session, Desk!Count
<1>6. RefusedKept'
  <2>1. ASSUME NEW s \in refused, Desk!Still(s), known'[s.email] # Desk!Unknown
        PROVE  /\ known'[s.email] \notin {Desk!Unknown, s.epoch}
               /\ s.user \in DOMAIN users => s.epoch < users[s.user].epoch
    <3>1. /\ s \in Desk!Tokens /\ s.email \in Emails /\ s.epoch \in 0..MaxEpoch
          /\ known[s.email] \notin {Desk!Unknown, s.epoch}
          /\ s.user \in DOMAIN users /\ s.epoch < users[s.user].epoch
      BY <1>0, <2>1 DEF RefusedKept, DeskInv, TokensKept, TokenKept, Desk!Tokens, Desk!Still
    <3>2. CASE s.email # t.email \/ ~postgres
      BY <1>4, <2>1, <3>1, <3>2
    <3>3. CASE s.email = t.email /\ postgres
      <4>1. known'[s.email] \in {Desk!Gone, users[s.user].epoch}
        BY <1>3, <1>4, <2>1, <3>1, <3>3 DEF Desk!Still
      <4>2. users[s.user].epoch \in 0..MaxEpoch
        BY <1>0, <3>1 DEF UsersKept, AccountRow
      <4> QED
        BY <2>1, <3>1, <4>1, <4>2 DEF Desk!Gone
    <3> QED
      BY <3>2, <3>3
  <2>2. ASSUME postgres, ~Accepts(t), t.live, Desk!Still(t)
        PROVE  /\ known'[t.email] \notin {Desk!Unknown, t.epoch}
               /\ t.user \in DOMAIN users => t.epoch < users[t.user].epoch
    <3>1. /\ t.user \in DOMAIN users /\ users[t.user].epoch \in 0..MaxEpoch
          /\ Desk!Epoch(t.email) = IF users[t.user].enabled THEN users[t.user].epoch
                                   ELSE Desk!Gone
      BY <1>0, <1>3, <2>2 DEF Desk!Still, UsersKept, AccountRow
    <3>2. Desk!Epoch(t.email) # t.epoch
      BY <2>2 DEF Accepts
    <3>3. t.epoch < users[t.user].epoch
      BY <1>2, <2>2, <3>1, <3>2 DEF TokenKept
    <3>4. known'[t.email] # Desk!Unknown
      BY <1>3, <1>4, <2>2 DEF Desk!Unknown, Desk!Gone
    <3> QED
      BY <1>4, <2>2, <3>2, <3>3, <3>4
  <2>3. \A s \in refused' : \/ s \in refused /\ Desk!Still(s) /\ known'[s.email] # Desk!Unknown
                            \/ s = t /\ postgres /\ ~Accepts(t) /\ t.live /\ Desk!Still(t)
    BY <1>1
  <2> QED
    BY <1>0, <2>1, <2>2, <2>3 DEF RefusedKept
<1>7. RequestsKept'
  <2>1. Desk!InFlight(t, postgres) \in Flight /\ Desk!InFlight(t, postgres).user \in created
    BY <1>0, <1>2 DEF Desk!InFlight, Flight, WorkerKept, Desk!Tokens, Desk!States
  <2> QED
    BY <1>0, <1>1, <2>1 DEF RequestsKept
<1>8. GuardsApart'
  <2>1. \A s \in Requests : req'[s].at = "counted" => req'[s] = req[s]
    BY <1>0, <1>1 DEF RequestsKept, Desk!InFlight
  <2> QED
    BY <1>0, <2>1, GuardsLater DEF Desk!Admins
<1> QED
  BY <1>5, <1>6, <1>7, <1>8

\* A request that moves: another state, an operation or a target, for the same person.
LEMMA MoveKeeps ==
  ASSUME RequestsKept, NEW r \in Requests, req[r] # Desk!Idle, created \subseteq created',
         NEW x \in {Desk!Idle} \cup Flight, x = Desk!Idle \/ x.user = req[r].user,
         req' = [req EXCEPT ![r] = x]
  PROVE  RequestsKept'
  BY DEF RequestsKept

\* The accounts' invariant is kept by every step, and so is what no operation on the
\* table takes back.
LEMMA DeskNext ==
  DeskInv /\ [Desk!Next]_Desk!vars => DeskInv' /\ TableStep(DOMAIN users)
<1> SUFFICES ASSUME DeskInv, [Desk!Next]_Desk!vars
             PROVE  DeskInv' /\ TableStep(DOMAIN users)
  OBVIOUS
<1> USE DeskAssumption
<1>0. /\ UsersKept /\ RowsKept /\ TokensKept /\ RequestsKept /\ WorkerKept /\ RefusedKept
      /\ GuardsApart
  BY DEF DeskInv
<1>1. ASSUME NEW changed, TableStep(changed), WorkerKept', RequestsKept', GuardsApart',
             UNCHANGED <<known, refused>>,
             tokens' = tokens \/ \E u \in DOMAIN users' : Desk!Issue(u, users'[u])
      PROVE  DeskInv' /\ TableStep(DOMAIN users)
  <2>1. TokensKept' /\ tokens \subseteq tokens'
    BY <1>1, IssueKeeps
  <2>2. RefusedKept'
    BY <1>1, <2>1, RefusedLater
  <2>3. TableStep(DOMAIN users)
    BY <1>1 DEF TableStep, Desk!Admins
  <2> QED
    BY <1>1, <2>1, <2>2, <2>3 DEF DeskInv, TableStep
<1>2. ASSUME req' = req, created \subseteq created', Desk!Admins \subseteq Desk!Admins',
             overlapped' = overlapped
      PROVE  RequestsKept' /\ GuardsApart'
  BY <1>0, <1>2, GuardsLater DEF RequestsKept
<1>3. ASSUME NEW r \in Requests, req[r] # Desk!Idle, created \subseteq created',
             NEW x \in {Desk!Idle} \cup Flight, x = Desk!Idle \/ x.user = req[r].user,
             req' = [req EXCEPT ![r] = x], x.at # "counted",
             Desk!Admins \subseteq Desk!Admins', overlapped => overlapped'
      PROVE  RequestsKept' /\ GuardsApart'
  <2>1. RequestsKept'
    BY <1>0, <1>3, MoveKeeps
  <2>2. \A s \in Requests : req'[s].at = "counted" => req'[s] = req[s]
    BY <1>0, <1>3 DEF RequestsKept
  <2> QED
    BY <1>3, <2>1, <2>2, GuardsLater
<1>4. /\ Desk!Idle.at # "counted"
      /\ \A r \in Requests : req[r].at \in Desk!States \ {"idle"} =>
           req[r] \in Flight /\ req[r] # Desk!Idle
  BY <1>0 DEF RequestsKept, Desk!Idle, Desk!States
<1>5. CASE UNCHANGED Desk!vars
  <2>1. /\ UNCHANGED <<users, created, rows, tokens, known, refused, postgres, req, calls,
                       overlapped, crossed>>
    BY <1>5 DEF Desk!vars, Desk!table, Desk!worker, Desk!races
  <2>2. TableStep({}) /\ WorkerKept' /\ Desk!Admins \subseteq Desk!Admins'
    BY <1>0, <2>1, TableStill DEF Later, WorkerKept, Desk!Admins
  <2> QED
    BY <1>1, <1>2, <2>1, <2>2
<1>6. CASE Desk!Signup
  <2>1. PICK u \in People, e \in Emails :
          Desk!CreateUser(u, e, "researcher") /\ Desk!Issue(u, users'[u])
    BY <1>6 DEF Desk!Signup
  <2>2. TableStep({}) /\ u \in DOMAIN users'
    <3>1. "researcher" \in Desk!Roles
      BY DEF Desk!Roles
    <3> QED
      BY <1>0, <1>6, <2>1, <3>1, CreateKeeps DEF Desk!CreateUser, Desk!Signup, Desk!races, Later
  <2>3. WorkerKept' /\ UNCHANGED <<known, refused, req, overlapped, crossed>>
    BY <1>0, <1>6 DEF Desk!Signup, Desk!Count, Desk!worker, Desk!races, WorkerKept
  <2> QED
    BY <1>1, <1>2, <2>1, <2>2, <2>3 DEF TableStep
<1>7. CASE Desk!Login
  <2>1. UNCHANGED <<users, created, rows, known, refused, req, overlapped, crossed>>
    BY <1>7 DEF Desk!Login, Desk!table, Desk!worker, Desk!races
  <2>2. \E u \in DOMAIN users' : Desk!Issue(u, users'[u])
    BY <1>7, <2>1 DEF Desk!Login
  <2>3. TableStep({}) /\ WorkerKept' /\ Desk!Admins \subseteq Desk!Admins'
    BY <1>0, <1>7, <2>1, TableStill DEF Later, Desk!Login, Desk!Count, WorkerKept, Desk!Admins
  <2> QED
    BY <1>1, <1>2, <2>1, <2>2, <2>3
<1>8. CASE Desk!Toggle
  <2>1. UNCHANGED <<users, created, rows, tokens, known, refused, req, calls, overlapped,
                      crossed>>
    BY <1>8 DEF Desk!Toggle, Desk!table, Desk!worker, Desk!races
  <2>2. TableStep({}) /\ WorkerKept' /\ Desk!Admins \subseteq Desk!Admins'
    BY <1>0, <1>8, <2>1, TableStill DEF Later, Desk!Toggle, WorkerKept, Desk!Admins
  <2> QED
    BY <1>1, <1>2, <2>1, <2>2
<1>9. CASE Desk!Restart
  <2>1. /\ UNCHANGED <<users, created, rows, tokens, postgres, calls, overlapped,
                      crossed>>
        /\ known' = [e \in Emails |-> Desk!Unknown] /\ refused' = {}
        /\ req' = [r \in Requests |-> Desk!Idle]
    BY <1>9 DEF Desk!Restart, Desk!table, Desk!races
  <2>2. UsersKept' /\ RowsKept' /\ TokensKept'
    BY <1>0, <2>1, TableStill DEF Later, TableStep, TokensKept, TokenKept
  <2>3. RefusedKept' /\ RequestsKept'
    BY <2>1 DEF RefusedKept, RequestsKept
  <2>4. WorkerKept'
    <3>1. Desk!Unknown \in {Desk!Gone, Desk!Unknown} \cup 0..MaxEpoch
      OBVIOUS
    <3> QED
      BY <1>0, <2>1, <3>1 DEF WorkerKept
  <2>5. GuardsApart'
    BY <1>0, <1>4, <2>1 DEF GuardsApart, Desk!Admins
  <2> QED
    BY <1>0, <2>1, <2>2, <2>3, <2>4, <2>5, TableStill DEF Later, DeskInv, TableStep
<1>10. ASSUME NEW r \in Requests, Desk!Session(r)
       PROVE  DeskInv' /\ TableStep(DOMAIN users)
  <2>1. WorkerKept' /\ RefusedKept' /\ RequestsKept' /\ GuardsApart'
    BY <1>10, SessionKeeps
  <2>2. UNCHANGED <<users, created, rows, tokens, crossed>>
    BY <1>10 DEF Desk!Session, Desk!table, Desk!races
  <2>3. UsersKept' /\ RowsKept' /\ TokensKept'
    BY <1>0, <2>2, TableStill DEF Later, TableStep, TokensKept, TokenKept
  <2> QED
    BY <1>0, <2>1, <2>2, <2>3, TableStill DEF Later, DeskInv, TableStep
<1>11. ASSUME NEW r \in Requests, Desk!Key(r)
       PROVE  DeskInv' /\ TableStep(DOMAIN users)
  <2>1. UNCHANGED <<users, created, rows, tokens, known, refused, postgres, overlapped,
                      crossed>>
    BY <1>11 DEF Desk!Key, Desk!table, Desk!worker, Desk!races
  <2>2. PICK x \in rows, u \in DOMAIN users :
          req' = [req EXCEPT ![r] =
            Desk!InFlight([user |-> u, email |-> x.email, role |-> users[u].role,
                           epoch |-> users[u].epoch, live |-> TRUE], TRUE)]
    BY <1>11 DEF Desk!Key, Desk!Holder
  <2>3. PICK y : y = Desk!InFlight([user |-> u, email |-> x.email, role |-> users[u].role,
                                    epoch |-> users[u].epoch, live |-> TRUE], TRUE)
    OBVIOUS
  <2>4. y \in Flight /\ y.user \in created /\ y.at # "counted"
    <3>1. /\ u \in created /\ u \in People /\ x.email \in Emails
          /\ users[u].role \in Desk!Roles /\ users[u].epoch \in 0..MaxEpoch
      BY <1>0 DEF UsersKept, AccountRow, RowsKept
    <3> QED
      BY <2>3, <3>1 DEF Desk!InFlight, Flight, Desk!Tokens, Desk!States
  <2>5. req' = [req EXCEPT ![r] = y]
    BY <2>2, <2>3
  <2>6. RequestsKept'
    BY <1>0, <2>1, <2>4, <2>5 DEF RequestsKept
  <2>7. \A s \in Requests : req'[s].at = "counted" => req'[s] = req[s]
    BY <1>0, <2>4, <2>5 DEF RequestsKept
  <2>8. TableStep({}) /\ WorkerKept' /\ Desk!Admins \subseteq Desk!Admins'
    BY <1>0, <1>11, <2>1, TableStill DEF Later, Desk!Key, Desk!Count, WorkerKept, Desk!Admins
  <2> QED
    BY <1>1, <2>1, <2>6, <2>7, <2>8, GuardsLater
<1>12. ASSUME NEW r \in Requests, Desk!Audit(r) \/ Desk!Confirm(r)
       PROVE  DeskInv' /\ TableStep(DOMAIN users)
  <2>1. UNCHANGED <<users, created, rows, tokens, known, refused, postgres, calls, overlapped,
                      crossed>>
    BY <1>12 DEF Desk!Audit, Desk!Confirm, Desk!Quiet, Desk!table, Desk!worker, Desk!races
  <2>2. req[r].at = "accepted" /\ req[r] \in Flight /\ req[r] # Desk!Idle
    BY <1>4, <1>12 DEF Desk!Audit, Desk!Confirm, Desk!States
  <2>3. PICK op \in Desk!AdminOps \cup Desk!OwnOps, u \in created :
          req' = [req EXCEPT ![r].at = "audited", ![r].op = op, ![r].target = u]
    BY <1>0, <1>12, <2>2 DEF Desk!Audit, Desk!Confirm, RequestsKept
  <2>4. PICK x : x = [req[r] EXCEPT !.at = "audited", !.op = op, !.target = u]
    OBVIOUS
  <2>5. req' = [req EXCEPT ![r] = x]
    BY <1>0, <2>2, <2>3, <2>4 DEF RequestsKept
  <2>6. x \in Flight /\ x.user = req[r].user /\ x.at # "counted"
    BY <1>0, <2>2, <2>4 DEF Flight, UsersKept, Desk!States
  <2>7. TableStep({}) /\ WorkerKept' /\ Desk!Admins \subseteq Desk!Admins'
    BY <1>0, <2>1, TableStill DEF Later, WorkerKept, Desk!Admins
  <2> QED
    BY <1>1, <1>3, <2>1, <2>2, <2>5, <2>6, <2>7
<1>13. ASSUME NEW r \in Requests, Desk!Write(r)
       PROVE  DeskInv' /\ TableStep(DOMAIN users)
  <2>1. /\ UNCHANGED <<users, created, tokens, known, refused, postgres, calls, overlapped,
                      crossed>>
        /\ req' = [req EXCEPT ![r] = Desk!Idle]
    BY <1>13 DEF Desk!Write, Desk!Quiet, Desk!End, Desk!worker, Desk!races
  <2>2. req[r].at = "accepted" /\ req[r] \in Flight /\ req[r] # Desk!Idle
    BY <1>4, <1>13 DEF Desk!Write, Desk!States
  <2>3. RowsKept'
    <3>1. PICK x : x = [author |-> req[r].user, email |-> req[r].email,
                        late |-> req[r].user \notin Desk!Holder(req[r].email)]
      OBVIOUS
    <3>2. rows' = rows \cup {x}
      BY <1>13, <3>1 DEF Desk!Write
    <3>3. /\ x \in [author : People, email : Emails, late : BOOLEAN] /\ x.author \in created
          /\ ~x.late => x.author \in DOMAIN users /\ x.email = users[x.author].email
      BY <1>0, <2>2, <3>1 DEF Flight, RequestsKept, Desk!Holder
    <3> QED
      BY <1>0, <2>1, <3>2, <3>3 DEF RowsKept, Desk!RowsFollow, Desk!Owned
  <2>4. TableStep({})
    BY <1>0, <2>1, <2>3 DEF TableStep, UsersKept, TokenKept, Desk!Admins
  <2>5. WorkerKept' /\ Desk!Admins \subseteq Desk!Admins'
    BY <1>0, <2>1 DEF WorkerKept, Desk!Admins
  <2> QED
    BY <1>1, <1>3, <1>4, <2>1, <2>2, <2>4, <2>5
<1>17. ASSUME NEW r \in Requests, Desk!Select(r)
       PROVE  DeskInv' /\ TableStep(DOMAIN users)
  <2>1. UNCHANGED <<users, created, rows, known, refused, postgres, calls, overlapped, crossed>>
    BY <1>17 DEF Desk!Select, Desk!Quiet, Desk!table, Desk!worker, Desk!races
  <2>2. req[r].at = "audited" /\ req[r] \in Flight /\ req[r] # Desk!Idle
    BY <1>4, <1>17 DEF Desk!Select, Desk!States
  <2>3. tokens' = tokens \/ \E u \in DOMAIN users' : Desk!Issue(u, users'[u])
    BY <1>17, <2>1 DEF Desk!Select
  <2>4. PICK x : /\ req' = [req EXCEPT ![r] = x] /\ x \in {Desk!Idle} \cup Flight
                 /\ x = Desk!Idle \/ x.user = req[r].user
                 /\ x.at # "counted"
    <3>1. CASE req' = [req EXCEPT ![r] = Desk!Idle]
      BY <1>4, <3>1
    <3>2. ASSUME req[r].target \in DOMAIN users, NEW at \in {"guard", "clear"},
                 req' = [req EXCEPT ![r].at = at, ![r].email = users[req[r].target].email]
          PROVE  \E x : /\ req' = [req EXCEPT ![r] = x] /\ x \in {Desk!Idle} \cup Flight
                        /\ x = Desk!Idle \/ x.user = req[r].user
                        /\ x.at # "counted"
      <4>1. PICK x : x = [req[r] EXCEPT !.at = at, !.email = users[req[r].target].email]
        OBVIOUS
      <4>2. req' = [req EXCEPT ![r] = x]
        BY <1>0, <2>2, <3>2, <4>1 DEF RequestsKept
      <4>3. users[req[r].target].email \in Emails
        BY <1>0, <3>2 DEF UsersKept, AccountRow
      <4>4. x \in Flight /\ x.user = req[r].user /\ x.at # "counted"
        BY <2>2, <3>2, <4>1, <4>3 DEF Flight, Desk!States
      <4> QED
        BY <4>2, <4>4
    <3>3. \/ req' = [req EXCEPT ![r] = Desk!Idle]
          \/ /\ req[r].target \in DOMAIN users
             /\ \E at \in {"guard", "clear"} :
                  req' = [req EXCEPT ![r].at = at, ![r].email = users[req[r].target].email]
      BY <1>17 DEF Desk!Select, Desk!End
    <3> QED
      BY <3>1, <3>2, <3>3
  <2>5. TableStep({}) /\ WorkerKept' /\ Desk!Admins \subseteq Desk!Admins'
    BY <1>0, <2>1, TableStill DEF Later, WorkerKept, Desk!Admins
  <2> QED
    BY <1>1, <1>3, <2>1, <2>2, <2>3, <2>4, <2>5
<1>14. ASSUME NEW r \in Requests, Desk!CountAdmins(r)
       PROVE  DeskInv' /\ TableStep(DOMAIN users)
  <2>1. /\ UNCHANGED <<users, created, rows, tokens, known, refused, postgres, calls, crossed>>
        /\ overlapped' = (overlapped \/ \E s \in Requests \ {r} : req[s].at = "counted")
        /\ IF Desk!OtherAdmins(req[r].target) = {} THEN req' = [req EXCEPT ![r] = Desk!Idle]
           ELSE req' = [req EXCEPT ![r].at = "counted"]
    BY <1>14 DEF Desk!CountAdmins, Desk!Quiet, Desk!End, Desk!Move, Desk!table, Desk!worker, Desk!races
  <2>2. req[r].at = "guard" /\ req[r] \in Flight /\ req[r] # Desk!Idle
    BY <1>4, <1>14 DEF Desk!CountAdmins, Desk!States
  <2>3. TableStep({}) /\ WorkerKept'
    BY <1>0, <2>1, TableStill DEF Later, WorkerKept
  <2>4. PICK x : x = IF Desk!OtherAdmins(req[r].target) = {} THEN Desk!Idle
                     ELSE [req[r] EXCEPT !.at = "counted"]
    OBVIOUS
  <2>5. req' = [req EXCEPT ![r] = x]
    BY <1>0, <2>1, <2>2, <2>4 DEF RequestsKept
  <2>6. /\ x \in {Desk!Idle} \cup Flight
        /\ x = Desk!Idle \/ x.user = req[r].user
        /\ x.at = "counted" => x.target = req[r].target
                               /\ Desk!OtherAdmins(req[r].target) # {}
    BY <1>4, <2>2, <2>4 DEF Flight, Desk!States
  <2>7. RequestsKept'
    BY <1>0, <2>1, <2>2, <2>5, <2>6, MoveKeeps
  <2>8. GuardsApart'
    <3>1. req'[r] = x /\ \A s \in Requests \ {r} : req'[s] = req[s]
      BY <1>0, <2>5 DEF RequestsKept
    <3>2. Desk!Admins' = Desk!Admins
      BY <2>1 DEF Desk!Admins
    <3> QED
      BY <1>0, <2>1, <2>6, <3>1, <3>2 DEF GuardsApart, Desk!OtherAdmins
  <2> QED
    BY <1>1, <2>1, <2>3, <2>7, <2>8
<1>15. ASSUME NEW r \in Requests, Desk!Apply(r)
       PROVE  DeskInv' /\ TableStep(DOMAIN users)
  <2>1. /\ TableStep({req[r].target})
        /\ tokens' = tokens \/ \E u \in DOMAIN users' : Desk!Issue(u, users'[u])
        /\ ~(req[r].target \in DOMAIN users /\ Desk!Takes(req[r].op, req[r].target)) =>
             Desk!Admins \subseteq Desk!Admins'
        /\ Later
    BY <1>15, ApplyKeeps
  <2>2. /\ UNCHANGED <<known, refused, postgres, calls>>
        /\ overlapped' = (overlapped \/ Desk!Uncounted(r))
        /\ crossed' = (crossed \/ Desk!Astray(r))
        /\ req' = [req EXCEPT ![r] = Desk!Idle]
        /\ req[r].at \in {"audited", "clear", "counted"} /\ req[r] # Desk!Idle
        /\ req[r].at = "audited" => req[r].op \notin Desk!ReadingOps
    BY <1>4, <1>15 DEF Desk!Apply, Desk!Quiet, Desk!End, Desk!worker, Desk!States
  <2>3. WorkerKept'
    BY <1>0, <2>2 DEF WorkerKept, Desk!Uncounted, Desk!Astray
  <2>4. CASE Desk!Admins \subseteq Desk!Admins'
    BY <1>1, <1>3, <1>4, <2>1, <2>2, <2>3, <2>4 DEF TableStep
  <2>5. CASE req[r].at = "counted"
    <3>1. RequestsKept'
      BY <1>0, <2>1, <2>2, MoveKeeps DEF TableStep
    <3>2. GuardsApart'
      <4>1. ~overlapped => \A s \in Requests : req'[s].at # "counted"
        BY <1>0, <1>4, <2>2, <2>5 DEF GuardsApart, RequestsKept
      <4>2. ~overlapped => Desk!Admins' # {}
        BY <1>0, <2>1, <2>5 DEF GuardsApart, Desk!OtherAdmins, TableStep
      <4> QED
        BY <2>2, <4>1, <4>2 DEF GuardsApart
    <3> QED
      BY <1>1, <2>1, <2>2, <2>3, <3>1, <3>2
  <2>6. CASE req[r].at = "audited"
    <3>1. ~Desk!Takes(req[r].op, req[r].target)
      BY <2>2, <2>6 DEF Desk!Takes, Desk!ReadingOps
    <3> QED
      BY <2>1, <2>4, <3>1
  <2>7. CASE req[r].at = "clear" /\ ~(Desk!Admins \subseteq Desk!Admins')
    <3>1. overlapped'
      BY <2>1, <2>2, <2>7 DEF Desk!Uncounted
    <3>2. RequestsKept' /\ GuardsApart'
      BY <1>0, <2>1, <2>2, <3>1, MoveKeeps DEF TableStep, GuardsApart
    <3> QED
      BY <1>1, <2>1, <2>2, <2>3, <3>2
  <2> QED
    BY <2>2, <2>4, <2>5, <2>6, <2>7
<1>16. ASSUME NEW r \in Requests, Desk!GiveUp(r)
       PROVE  DeskInv' /\ TableStep(DOMAIN users)
  <2>1. /\ UNCHANGED <<users, created, rows, tokens, known, refused, postgres, calls,
                       overlapped, crossed>>
        /\ req' = [req EXCEPT ![r] = Desk!Idle] /\ req[r] # Desk!Idle
    BY <1>16 DEF Desk!GiveUp, Desk!Quiet, Desk!End, Desk!table, Desk!worker, Desk!races
  <2>2. TableStep({}) /\ WorkerKept' /\ Desk!Admins \subseteq Desk!Admins'
    BY <1>0, <2>1, TableStill DEF Later, WorkerKept, Desk!Admins
  <2> QED
    BY <1>1, <1>3, <1>4, <2>1, <2>2
<1> QED
  BY <1>5, <1>6, <1>7, <1>8, <1>9, <1>10, <1>11, <1>12, <1>13, <1>14, <1>15, <1>16,
     <1>17 DEF Desk!Next

\* Whatever the accounts reach satisfies the invariant.
LEMMA DeskInvariant == Desk!Spec => []DeskInv
<1> QED
  BY DeskInit, DeskNext, PTL DEF Desk!Spec

\* A request is let in by a session check or by its key, and by nothing else.
LEMMA LetIn ==
  ASSUME DeskInv, [Desk!Next]_Desk!vars, NEW r \in Requests, Desk!Accepted(r)
  PROVE  Desk!Session(r) \/ Desk!Key(r)
<1>0. /\ req[r] = Desk!Idle /\ req'[r] # Desk!Idle /\ req[r].at = "idle"
      /\ req \in [Requests -> {Desk!Idle} \cup Flight]
  BY DEF Desk!Accepted, Desk!Idle, DeskInv, RequestsKept
<1>1. CASE req' = req
  BY <1>0, <1>1
<1>2. ASSUME NEW s \in Requests, s # r, NEW x, req' = [req EXCEPT ![s] = x]
      PROVE  FALSE
  BY <1>0, <1>2
<1>3. CASE UNCHANGED Desk!vars \/ Desk!Signup \/ Desk!Login \/ Desk!Toggle
  BY <1>1, <1>3 DEF Desk!vars, Desk!Signup, Desk!Login, Desk!Toggle
<1>4. CASE Desk!Restart
  BY <1>0, <1>4 DEF Desk!Restart
<1>5. ASSUME NEW s \in Requests, Desk!Session(s) \/ Desk!Key(s)
      PROVE  Desk!Session(r) \/ Desk!Key(r)
  <2>1. req' = req \/ \E x : req' = [req EXCEPT ![s] = x]
    BY <1>5 DEF Desk!Session, Desk!Key
  <2> QED
    BY <1>1, <1>2, <1>5, <2>1
<1>6. ASSUME NEW s \in Requests, Desk!Audit(s) \/ Desk!Confirm(s)
      PROVE  FALSE
  <2>1. s # r
    BY <1>0, <1>6 DEF Desk!Audit, Desk!Confirm
  <2> QED
    BY <1>0, <1>6, <2>1 DEF Desk!Audit, Desk!Confirm
<1>7. ASSUME NEW s \in Requests, Desk!Write(s) \/ Desk!Apply(s) \/ Desk!GiveUp(s)
      PROVE  FALSE
  <2>1. req' = [req EXCEPT ![s] = Desk!Idle]
    BY <1>7 DEF Desk!Write, Desk!Apply, Desk!GiveUp, Desk!End
  <2> QED
    BY <1>0, <2>1
<1>8. ASSUME NEW s \in Requests, Desk!CountAdmins(s) \/ Desk!Select(s)
      PROVE  FALSE
  <2>1. s # r
    BY <1>0, <1>8 DEF Desk!CountAdmins, Desk!Select
  <2> QED
    BY <1>0, <1>8, <2>1 DEF Desk!CountAdmins, Desk!Select, Desk!End, Desk!Move
<1> QED
  BY <1>3, <1>4, <1>5, <1>6, <1>7, <1>8 DEF Desk!Next

\* A session let in while Postgres answers is level with its account, which is enabled
\* and has the role of the token.
LEMMA SessionIsCurrent ==
  ASSUME DeskInv, [Desk!Next]_Desk!vars, NEW r \in Requests,
         Desk!Accepted(r), req'[r].sure, Desk!Still(req'[r].session)
  PROVE  users[req'[r].user].enabled /\ req'[r].role = users[req'[r].user].role
<1>0. UsersKept /\ req \in [Requests -> {Desk!Idle} \cup Flight]
  BY DEF DeskInv, RequestsKept
<1>1. CASE Desk!Key(r)
  <2>1. PICK u \in DOMAIN users, x \in rows :
          /\ users[u].enabled
          /\ req' = [req EXCEPT ![r] =
               Desk!InFlight([user |-> u, email |-> x.email, role |-> users[u].role,
                              epoch |-> users[u].epoch, live |-> TRUE], TRUE)]
    BY <1>1 DEF Desk!Key, Desk!Holder
  <2> QED
    BY <1>0, <2>1 DEF Desk!InFlight
<1>2. CASE Desk!Session(r)
  <2>1. PICK t \in tokens :
          /\ postgres => Desk!Epoch(t.email) = t.epoch
          /\ req' = [req EXCEPT ![r] = Desk!InFlight(t, postgres)]
    BY <1>2 DEF Desk!Session, Desk!Accepted
  <2>2. /\ req'[r].user = t.user /\ req'[r].role = t.role /\ Desk!Still(t)
        /\ Desk!Epoch(t.email) = t.epoch
    BY <1>0, <2>1 DEF Desk!InFlight
  <2>3. TokenKept(t) /\ t.epoch \in 0..MaxEpoch
    BY DEF DeskInv, TokensKept, TokenKept, Desk!Tokens
  <2>4. users[t.user].enabled /\ t.epoch = users[t.user].epoch
    BY <1>0, <2>2, <2>3, EpochIs DEF Desk!Still, Desk!Gone
  <2> QED
    BY <2>2, <2>3, <2>4 DEF TokenKept, Desk!Still
<1> QED
  BY <1>1, <1>2, LetIn

\* A session that this worker refused is not let in while Postgres is away.
LEMMA RefusedStaysOut ==
  ASSUME DeskInv, [Desk!Next]_Desk!vars, NEW r \in Requests,
         Desk!Accepted(r), ~req'[r].sure
  PROVE  req'[r].session \notin refused
<1>0. req \in [Requests -> {Desk!Idle} \cup Flight]
  BY DEF DeskInv, RequestsKept
<1>1. CASE Desk!Key(r)
  <2>1. PICK t : req' = [req EXCEPT ![r] = Desk!InFlight(t, TRUE)]
    BY <1>1 DEF Desk!Key
  <2> QED
    BY <1>0, <2>1 DEF Desk!InFlight
<1>2. CASE Desk!Session(r)
  <2>1. PICK t \in tokens :
          /\ ~postgres => known[t.email] \in {Desk!Unknown, t.epoch}
          /\ req' = [req EXCEPT ![r] = Desk!InFlight(t, postgres)]
    BY <1>2 DEF Desk!Session, Desk!Accepted
  <2>2. req'[r].session = t /\ ~postgres
    BY <1>0, <2>1 DEF Desk!InFlight
  <2> QED
    BY <2>1, <2>2 DEF DeskInv, RefusedKept
<1> QED
  BY <1>1, <1>2, LetIn

\* A session that is behind its account stays behind it.
LEMMA CutStaysCut ==
  ASSUME DeskInv, [Desk!Next]_Desk!vars, NEW t \in tokens,
         t.live, Desk!Still(t), ~Desk!Current(t), Desk!Still(t)'
  PROVE  ~Desk!Current(t)'
<1>1. TokenKept(t) /\ t \in Desk!Tokens /\ t.epoch \in 0..MaxEpoch /\ t.user \in DOMAIN users
  BY DEF DeskInv, TokensKept, TokenKept, Desk!Tokens, Desk!Still
<1>2. t.user \in created /\ users[t.user].epoch \in 0..MaxEpoch
  BY <1>1 DEF DeskInv, UsersKept, AccountRow
<1>3. t.epoch < users[t.user].epoch
  BY <1>1, <1>2 DEF TokenKept, Desk!Current
<1>4. t.user \in DOMAIN users' /\ t.epoch < users'[t.user].epoch
  BY <1>1, <1>2, <1>3, DeskNext DEF TableStep, Desk!Still
<1>5. users'[t.user].epoch # t.epoch
  <2>1. users'[t.user].epoch \in 0..MaxEpoch
    BY <1>4, DeskNext DEF TableStep, UsersKept, AccountRow
  <2> QED
    BY <1>1, <1>4, <2>1
<1> QED
  BY <1>5 DEF Desk!Current

\* What an account finds under the address it takes was its own.
CleanStep ==
  \A u \in DOMAIN users' :
    ~crossed' /\ (u \notin DOMAIN users \/ users[u].email # users'[u].email) =>
      \A x \in rows' : x.email = users'[u].email =>
        u \in DOMAIN users /\ \E y \in rows : y.author = x.author /\ y.email = users[u].email

\* Neither a new account nor a new address comes with what somebody else left there.
LEMMA NobodyInherits ==
  ASSUME DeskInv, [Desk!Next]_Desk!vars
  PROVE  CleanStep
<1>0. UsersKept /\ RowsKept
  BY DEF DeskInv
<1>1. CASE users' = users
  BY <1>1 DEF CleanStep
<1>2. ASSUME NEW u \in People, NEW e \in Emails, NEW role, Desk!CreateUser(u, e, role)
      PROVE  CleanStep
  <2>1. /\ \A v \in DOMAIN users' : v = u \/ (v \in DOMAIN users /\ users'[v] = users[v])
        /\ u \in DOMAIN users' => users'[u].email = e
        /\ \A x \in rows' : x.email # e
    BY <1>0, <1>2 DEF Desk!CreateUser, UsersKept
  <2> QED
    BY <2>1 DEF CleanStep
<1>3. ASSUME NEW u \in DOMAIN users, NEW role, NEW enabled, NEW cuts,
             Desk!Update(u, role, enabled, cuts)
      PROVE  CleanStep
  <2>1. PICK epoch : users' = [users EXCEPT ![u] = [email |-> users[u].email, role |-> role,
                                            enabled |-> enabled, epoch |-> epoch]]
    BY <1>3 DEF Desk!Update
  <2>2. /\ DOMAIN users' = DOMAIN users
        /\ \A v \in DOMAIN users : users'[v].email = users[v].email
    BY <1>0, <2>1 DEF UsersKept
  <2> QED
    BY <2>2 DEF CleanStep
<1>4. ASSUME NEW u, NEW old, NEW e \in Emails \ {old}, Desk!SetEmail(u, old, e),
             ~crossed' => u \in DOMAIN users /\ users[u].email = old
      PROVE  CleanStep
  <2>0. CASE crossed'
    BY <2>0 DEF CleanStep
  <2>1. CASE ~crossed'
    <3>1. /\ DOMAIN users' = DOMAIN users /\ users'[u].email = e
          /\ \A v \in DOMAIN users \ {u} : users'[v] = users[v]
          /\ users[u].email = old
      BY <1>0, <1>4, <2>1 DEF Desk!SetEmail, UsersKept, AccountRow
    <3>2. ASSUME NEW x \in rows', x.email = e
          PROVE  \E y \in rows : y.author = x.author /\ y.email = users[u].email
      <4>1. PICK y \in rows : y.email = old /\ x = [y EXCEPT !.email = e]
        BY <1>4, <3>2 DEF Desk!SetEmail, Desk!Reassign
      <4>2. x.author = y.author
        BY <1>0, <4>1 DEF RowsKept
      <4> QED
        BY <3>1, <4>1, <4>2
    <3> QED
      BY <1>4, <2>1, <3>1, <3>2 DEF CleanStep
  <2> QED
    BY <2>0, <2>1
<1>5. ASSUME NEW u, NEW old, Desk!DeleteUser(u, old)
      PROVE  CleanStep
  BY <1>5 DEF Desk!DeleteUser, CleanStep
<1>6. ASSUME NEW r \in Requests, Desk!Apply(r)
      PROVE  CleanStep
  <2>1. \/ users' = users
        \/ \E v \in People, e \in Emails, role \in Desk!Roles : Desk!CreateUser(v, e, role)
        \/ /\ req[r].op = "own_email"
           /\ \E e \in Emails \ {req[r].email} : Desk!SetEmail(req[r].target, req[r].email, e)
        \/ Desk!DeleteUser(req[r].target, req[r].email)
        \/ /\ req[r].target \in DOMAIN users
           /\ \/ Desk!SetRole(req[r].target, "researcher")
              \/ Desk!SetRole(req[r].target, "admin")
              \/ Desk!SetDisabled(req[r].target, req[r].op = "disable")
              \/ Desk!SetPassword(req[r].target)
    BY <1>6 DEF Desk!Apply, Desk!table
  <2>2. (\/ Desk!SetRole(req[r].target, "researcher")
         \/ Desk!SetRole(req[r].target, "admin")
         \/ Desk!SetDisabled(req[r].target, req[r].op = "disable")
         \/ Desk!SetPassword(req[r].target)) =>
           \E role, enabled, cuts : Desk!Update(req[r].target, role, enabled, cuts)
    BY DEF Desk!SetRole, Desk!SetDisabled, Desk!SetPassword
  <2>3. CASE req[r].target \in DOMAIN users
             /\ \E role, enabled, cuts : Desk!Update(req[r].target, role, enabled, cuts)
    BY <1>3, <2>3
  <2>4. req[r].op = "own_email" =>
          (~crossed' => req[r].target \in DOMAIN users
                        /\ users[req[r].target].email = req[r].email)
    BY <1>6 DEF Desk!Apply, Desk!Astray, Desk!Holder
  <2> QED
    BY <1>1, <1>2, <1>4, <1>5, <2>1, <2>2, <2>3, <2>4
<1>7. CASE Desk!Signup
  BY <1>2, <1>7 DEF Desk!Signup
<1>8. \/ Desk!Signup \/ \E r \in Requests : Desk!Apply(r)
      \/ users' = users
  <2>1. ASSUME NEW r \in Requests,
               \/ Desk!Session(r) \/ Desk!Key(r) \/ Desk!Audit(r) \/ Desk!Confirm(r)
               \/ Desk!Write(r) \/ Desk!Select(r) \/ Desk!CountAdmins(r) \/ Desk!GiveUp(r)
        PROVE  users' = users
    BY <2>1 DEF Desk!Session, Desk!Key, Desk!Audit, Desk!Confirm, Desk!Write,
                Desk!Select, Desk!CountAdmins, Desk!GiveUp, Desk!table
  <2> QED
    BY <2>1 DEF Desk!Next, Desk!vars, Desk!table, Desk!Login, Desk!Toggle, Desk!Restart
<1> QED
  BY <1>1, <1>6, <1>7, <1>8

\* What an account owns is left to it.
LastStep ==
  \A x \in rows : ~crossed' /\ ~x.late /\ x.author \in DOMAIN users' =>
    \E y \in rows' : y.author = x.author /\ ~y.late

\* No step removes what an account owns without the account.
LEMMA NobodyRemoves ==
  ASSUME DeskInv, [Desk!Next]_Desk!vars
  PROVE  LastStep
<1>0. UsersKept /\ RowsKept /\ RequestsKept
  BY DEF DeskInv
<1>1. CASE rows \subseteq rows'
  BY <1>1 DEF LastStep
<1>2. ASSUME NEW u \in People, NEW e \in Emails, NEW role, Desk!CreateUser(u, e, role), Later
      PROVE  LastStep
  <2>1. ASSUME NEW x \in rows, ~crossed', ~x.late
        PROVE  x \in rows'
    BY <1>0, <1>2, <2>1
       DEF Desk!CreateUser, Desk!Holder, RowsKept, Desk!RowsFollow, Desk!Owned, Later
  <2> QED
    BY <2>1 DEF LastStep
<1>3. ASSUME NEW u, NEW old, NEW e \in Emails \ {old}, Desk!SetEmail(u, old, e), Later,
             ~crossed' => u \in DOMAIN users /\ users[u].email = old
      PROVE  LastStep
  <2>1. ASSUME NEW x \in rows, ~crossed', ~x.late
        PROVE  \E y \in rows' : y.author = x.author /\ ~y.late
    <3>1. x.author \in DOMAIN users /\ x.email = users[x.author].email
      BY <1>0, <1>3, <2>1 DEF RowsKept, Desk!RowsFollow, Desk!Owned, Later
    <3>2. CASE x.email = old
      <4>1. PICK y : y = [x EXCEPT !.email = e]
        OBVIOUS
      <4>2. y.author = x.author /\ y.late = x.late
        BY <1>0, <4>1 DEF RowsKept
      <4>3. y \in rows'
        BY <1>3, <3>2, <4>1 DEF Desk!SetEmail, Desk!Reassign
      <4> QED
        BY <2>1, <4>2, <4>3
    <3>3. CASE x.email # old
      <4>1. x.email # e
        BY <1>3, <2>1, <3>1, <3>3 DEF Desk!SetEmail, Desk!Holder
      <4> QED
        BY <1>3, <2>1, <3>3, <4>1 DEF Desk!SetEmail, Desk!Reassign
    <3> QED
      BY <3>2, <3>3
  <2> QED
    BY <2>1 DEF LastStep
<1>4. ASSUME NEW u, NEW old, Desk!DeleteUser(u, old), Later,
             ~crossed' => u \in DOMAIN users /\ users[u].email = old
      PROVE  LastStep
  <2>1. ASSUME NEW x \in rows, ~crossed', ~x.late, x.author \in DOMAIN users'
        PROVE  x \in rows'
    <3>1. /\ x.author \in DOMAIN users /\ x.email = users[x.author].email /\ x.author # u
          /\ u \in DOMAIN users /\ users[u].email = old
      BY <1>0, <1>4, <2>1 DEF RowsKept, Desk!RowsFollow, Desk!Owned, Later, Desk!DeleteUser
    <3>2. x.email # old
      BY <1>0, <3>1 DEF UsersKept
    <3> QED
      BY <1>4, <3>2 DEF Desk!DeleteUser
  <2> QED
    BY <2>1 DEF LastStep
<1>5. ASSUME NEW r \in Requests, Desk!Apply(r)
      PROVE  LastStep
  <2>1. \/ rows' = rows
        \/ \E v \in People, e \in Emails, role \in Desk!Roles : Desk!CreateUser(v, e, role)
        \/ /\ req[r].op = "own_email"
           /\ \E e \in Emails \ {req[r].email} : Desk!SetEmail(req[r].target, req[r].email, e)
        \/ req[r].op = "own_delete" /\ Desk!DeleteUser(req[r].target, req[r].email)
    BY <1>5 DEF Desk!Apply, Desk!table, Desk!SetRole, Desk!SetDisabled, Desk!SetPassword,
                Desk!Update
  <2>2. /\ Later
        /\ req[r].op \in {"own_email", "own_delete"} =>
             (~crossed' => req[r].target \in DOMAIN users
                           /\ users[req[r].target].email = req[r].email)
    BY <1>5 DEF Desk!Apply, Desk!Astray, Desk!Holder, Later
  <2> QED
    BY <1>1, <1>2, <1>3, <1>4, <2>1, <2>2
<1>6. CASE Desk!Signup
  <2>1. Later
    BY <1>6 DEF Desk!Signup, Desk!races, Later
  <2> QED
    BY <1>2, <1>6, <2>1 DEF Desk!Signup
<1>7. Desk!Signup \/ (\E r \in Requests : Desk!Apply(r)) \/ rows \subseteq rows'
  <2>1. ASSUME NEW r \in Requests,
               \/ Desk!Session(r) \/ Desk!Key(r) \/ Desk!Audit(r) \/ Desk!Confirm(r)
               \/ Desk!Write(r) \/ Desk!Select(r) \/ Desk!CountAdmins(r) \/ Desk!GiveUp(r)
        PROVE  rows \subseteq rows'
    BY <2>1 DEF Desk!Session, Desk!Key, Desk!Audit, Desk!Confirm, Desk!Write,
                Desk!Select, Desk!CountAdmins, Desk!GiveUp, Desk!table
  <2> QED
    BY <2>1 DEF Desk!Next, Desk!vars, Desk!table, Desk!Login, Desk!Toggle, Desk!Restart
<1> QED
  BY <1>1, <1>5, <1>6, <1>7

\* Who owns what was written, and that somebody may still administer (users.py, set_email
\* with _reassign_owned_rows, create_user, delete_user, _enabled_admin_count): as long as no
\* change goes by an address its account had no more, rows follow their account and go with
\* it, nobody else removes them, and nobody starts with what another account left; as long
\* as no two guards overlap and every admin taken was counted, an enabled admin stays.
THEOREM AccountsHold == Desk!Spec => AccountsKept
<1>1. DeskInv => Desk!RowsFollow /\ Desk!AdminRemains
  BY DEF DeskInv, RowsKept, GuardsApart, Desk!AdminRemains
<1>2. DeskInv /\ [Desk!Next]_Desk!vars => [CleanStep]_Desk!vars /\ [LastStep]_Desk!vars
  BY NobodyInherits, NobodyRemoves
<1>3. Desk!Spec => [][CleanStep]_Desk!vars /\ [][LastStep]_Desk!vars
  BY <1>2, DeskInvariant, PTL DEF Desk!Spec
<1>4. /\ [][CleanStep]_Desk!vars => Desk!NothingInherited
      /\ [][LastStep]_Desk!vars => Desk!RowsLast
  BY DEF CleanStep, LastStep, Desk!NothingInherited, Desk!RowsLast
<1> QED
  BY <1>1, <1>3, <1>4, DeskInvariant, PTL DEF AccountsKept

\* Whom a session lets in (auth.py, verify_token): one let in while Postgres answers has
\* the role its account has then, one that was cut is not level again, and what this
\* worker refused stays out through an outage.
THEOREM SessionsStayCut == Desk!Spec => SessionsCut
<1> DEFINE Current == \A r \in Requests :
             Desk!Accepted(r) /\ req'[r].sure /\ Desk!Still(req'[r].session) =>
               users[req'[r].user].enabled /\ req'[r].role = users[req'[r].user].role
           Cut == \A t \in tokens :
             t.live /\ Desk!Still(t) /\ ~Desk!Current(t) /\ Desk!Still(t)' => ~Desk!Current(t)'
           Refused == \A r \in Requests :
             Desk!Accepted(r) /\ ~req'[r].sure => req'[r].session \notin refused
<1>1. DeskInv /\ [Desk!Next]_Desk!vars => [Current /\ Cut /\ Refused]_Desk!vars
  BY SessionIsCurrent, CutStaysCut, RefusedStaysOut
<1>2. [][Current /\ Cut /\ Refused]_Desk!vars =>
        [][Current]_Desk!vars /\ [][Cut]_Desk!vars /\ [][Refused]_Desk!vars
  <2>1. [Current /\ Cut /\ Refused]_Desk!vars =>
          [Current]_Desk!vars /\ [Cut]_Desk!vars /\ [Refused]_Desk!vars
    OBVIOUS
  <2> QED
    BY <2>1, PTL
<1>3. [][Current]_Desk!vars /\ [][Cut]_Desk!vars /\ [][Refused]_Desk!vars => SessionsCut
  BY DEF SessionsCut, Desk!RoleIsCurrent, Desk!NeverRevived, Desk!RefusedForGood
<1> HIDE DEF Current, Cut, Refused
<1> QED
  BY <1>1, <1>2, <1>3, DeskInvariant, PTL DEF Desk!Spec

\* The types of both tables.
THEOREM TablesTyped == MCSpec => []TypesKept
<1>1. MCInit => TalkInv /\ DeskInv
  BY TalkInit, DeskInit DEF MCInit
<1>2. TalkInv /\ DeskInv /\ [MCNext]_<<part, vars, deskVars>> => TalkInv' /\ DeskInv'
  <2>1. [MCNext]_<<part, vars, deskVars>> => [Next]_vars /\ [Desk!Next]_Desk!vars
    BY DEF MCNext, deskVars, Desk!vars, Desk!table, Desk!worker, Desk!races
  <2> QED
    BY <2>1, TalkNext, DeskNext
<1>3. TalkInv /\ DeskInv => TypesKept
  <2>1. TalkInv => TypeOK
    BY DEF TalkInv
  <2>2. ASSUME DeskInv PROVE Desk!TypeOK
    <3>1. \A u \in DOMAIN users :
            users[u] \in [email : Emails, role : Desk!Roles, enabled : BOOLEAN,
                          epoch : 0..MaxEpoch]
      BY <2>2 DEF DeskInv, UsersKept, AccountRow
    <3>2. tokens \subseteq Desk!Tokens /\ Desk!Cardinality(tokens) <= MaxTokens
      BY <2>2, DeskCounts DEF DeskInv, TokensKept, TokenKept
    <3>3. \A r \in Requests : req[r].at \in Desk!States
      BY <2>2 DEF DeskInv, RequestsKept, Flight, Desk!Idle, Desk!States
    <3> QED
      BY <2>2, <3>1, <3>2, <3>3
         DEF DeskInv, UsersKept, RowsKept, RefusedKept, WorkerKept, Desk!TypeOK
  <2> QED
    BY <2>1, <2>2 DEF TypesKept
<1> QED
  BY <1>1, <1>2, <1>3, PTL DEF MCSpec
=============================================================================

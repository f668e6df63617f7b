------------------------------ MODULE MCTables ------------------------------
(***************************************************************************)
(* Small instances of Conversation and Accounts for TLC: what people keep  *)
(* in PostgreSQL.  The two share no state: a behaviour of this module is a *)
(* behaviour of one of them, with the other at rest.                       *)
(***************************************************************************)
EXTENDS Conversation, TLC

CONSTANTS People, Emails, Requests, KnownMax, MaxEpoch, MaxCalls, MaxTokens, MaxRows

ASSUME DeskAssumption ==
  MaxEpoch \in Nat /\ MaxCalls \in Nat /\ MaxTokens \in Nat

VARIABLES
  part, users, created, tokens, rows, known, refused, postgres, req, calls, overlapped,
  crossed

Desk == INSTANCE Accounts

deskVars == <<users, created, tokens, rows, known, refused, postgres, req, calls, overlapped,
              crossed>>

\* Turns are interchangeable until they begin; accounts, addresses and
\* requests are too.
Symmetric == UNION {Permutations(S) : S \in {Turns, People, Emails}}

\* The accounts start from any of several states.
OneStart == CHOOSE u \in People \X People \X Emails \X Emails : u[1] # u[2] /\ u[3] # u[4]

MCInit ==
  /\ part \in {"talk", "desk"}
  /\ Init /\ Desk!Init
  /\ part # "desk" =>
       /\ created = {OneStart[1], OneStart[2]}
       /\ users[OneStart[1]].email = OneStart[3] /\ users[OneStart[2]].email = OneStart[4]

MCNext ==
  /\ part' = part
  /\ \/ part = "talk" /\ Next /\ UNCHANGED deskVars
     \/ part = "desk" /\ Desk!Next /\ UNCHANGED vars

MCSpec == MCInit /\ [][MCNext]_<<part, vars, deskVars>>

\* TypeOK of both.
TypesKept == TypeOK /\ Desk!TypeOK
\* AfterWhatItRead, OneRound and NothingAfterDelete of the conversation: a transcript is in
\* order, a question back is answered once, and a delete is final.
TranscriptKept == AfterWhatItRead /\ OneRound /\ NothingAfterDelete
\* RowsFollow, RowsLast, NothingInherited and AdminRemains of the accounts: who owns what was
\* written, and that somebody may still administer, as long as no two changes cross.
AccountsKept ==
  [](Desk!RowsFollow /\ Desk!AdminRemains) /\ Desk!NothingInherited /\ Desk!RowsLast
\* RoleIsCurrent, NeverRevived and RefusedForGood of the accounts: whom a session lets in.
SessionsCut == Desk!RoleIsCurrent /\ Desk!NeverRevived /\ Desk!RefusedForGood
\* LastAdminKept of the accounts: an enabled admin is always left.
LastAdminKept == Desk!LastAdminKept
=============================================================================

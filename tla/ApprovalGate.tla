---------------------------- MODULE ApprovalGate ----------------------------
(***************************************************************************)
(* What the approval workflow promises about each request, without the     *)
(* tables, handlers and events that bring it about: once the voters are    *)
(* named they stay the same, a vote in favour is never forgotten, and a    *)
(* case passes the gate only after every voter has voted in favour.        *)
(***************************************************************************)
CONSTANTS Request, User, Case

VARIABLES
    voters,   \* who has been asked to approve; {} before anyone is
    favour,   \* who has ever approved
    passed    \* the cases that came out of the approval

gate == <<voters, favour, passed>>

Init ==
    /\ voters = [r \in Request |-> {}]
    /\ favour = [r \in Request |-> {}]
    /\ passed = [r \in Request |-> {}]

\* The approvers of the first step are asked, all at the same time.
Open(r) ==
    /\ voters[r] = {}
    /\ \E S \in SUBSET User : voters' = [voters EXCEPT ![r] = S]
    /\ UNCHANGED <<favour, passed>>

Vote(r) ==
    /\ \E u \in voters[r] : favour' = [favour EXCEPT ![r] = @ \cup {u}]
    /\ UNCHANGED <<voters, passed>>

Pass(r) ==
    /\ voters[r] # {} /\ voters[r] \subseteq favour[r]
    /\ \E c \in Case : passed' = [passed EXCEPT ![r] = @ \cup {c}]
    /\ UNCHANGED <<voters, favour>>

Next == \E r \in Request : Open(r) \/ Vote(r) \/ Pass(r)

Spec == Init /\ [][Next]_gate
=============================================================================

----------------------------- MODULE MCRunLock -----------------------------
(* Instances of RunLock for TLC. *)
EXTENDS RunLockGuard, TLC

CONSTANTS p1, p2, p3, p4

OneHost == [p \in Proc |-> "workstation"]

\* p4 runs on another machine that shares the run directory.
TwoHosts == [p \in Proc |-> IF p = p4 THEN "laptop" ELSE "workstation"]

Symmetric == Permutations({p1, p2, p3})

\* p1 and p2 start after nobody, or after p3 died as the holder and p4 as it
\* recovered the lock of p3: both are states that RunLock reaches under
\* "midcrash".
Remains ==
    /\ alive = {p1, p2}
    /\ \E left \in BOOLEAN :
         /\ pc = [p \in Proc |->
                    CASE left /\ p = p3 -> "hold"
                      [] left /\ p = p4 -> "grace"
                      [] OTHER -> "start"]
         /\ lock = IF left THEN Written(p3, 0) ELSE Absent
         /\ claim = IF left THEN Written(p4, 0) ELSE Absent
         /\ same = IF left THEN {p4} ELSE {}
    /\ waited = {}
    /\ outcome = [p \in Proc |-> "failed"]
    /\ kind = [p \in Proc |-> "dead_pid"]
    /\ nap = [p \in Proc |-> 0]
    /\ hb = [p \in Proc |-> "off"]
    /\ due = [p \in Proc |-> 0]
    /\ missed = [p \in Proc |-> 0]
    /\ op = "idle"

AfterDeaths == Remains /\ [][Next]_vars /\ Fairness

=============================================================================

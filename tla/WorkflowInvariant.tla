------------------------- MODULE WorkflowInvariant -------------------------
(***************************************************************************)
(* Why the approval gate of Workflow.tla is safe: an inductive invariant,  *)
(* checked by TLC on the instances of MCWorkflow and proved in general in  *)
(* WorkflowProofs, OutcomeProofs and LedgerProofs.  Each part says what a  *)
(* task may rely on between awaits.                                        *)
(***************************************************************************)
EXTENDS WorkflowProperties

(* Typing, and a bound: until the graph is past verify, the retry counter  *)
(* is below its limit -- otherwise verify would count beyond MaxVerify.    *)
Past == {"notify", "audit", "end"}
Good(v) == v \in Values /\ (v.next \in Past \/ v.retries < MaxVerify)
Midway == {"asked", "calling", "called"}

TypedProcesses ==
    /\ pc \in [Processes -> PCs]
    /\ mem \in [Processes -> Values]
    /\ \A p \in Processes : Good(mem[p])
    /\ \A p \in Processes : pc[p] \in Midway => mem[p].next \notin Past

TypedHeads == head \in [Runs -> Values] /\ \A r \in Runs : Good(head[r])

TypedLogs ==
    /\ verdict \in [Clicks -> {"none", "approved", "rejected"}]
    /\ guards \subseteq Keys /\ window \in [Keys -> SUBSET Clicks]
    /\ decided \subseteq Clicks /\ writers \subseteq Clicks /\ landed \subseteq Clicks
    /\ sheet \subseteq Clicks /\ rows \subseteq Row /\ alerts \subseteq Clicks
    /\ pending \subseteq Runs /\ asked \subseteq Runs /\ shadow \in BOOLEAN

TypeInv == TypedProcesses /\ TypedHeads /\ TypedLogs

(* A click about to call Shopify holds its guard key, alone, and nobody    *)
(* called since the key was set.                                           *)
KeyInv ==
    /\ \A c \in Clicks : pc[c] = "calling" =>
          KeyOf(c) \in guards /\ window[KeyOf(c)] = {}
    /\ \A c, d \in Clicks :
          pc[c] = "calling" /\ pc[d] = "calling" /\ KeyOf(c) = KeyOf(d) => c = d
    /\ OneCallPerKey

(* An approval value, wherever a copy of it is -- a checkpoint, the memory *)
(* of a task, an audit row -- comes from a stored decision on that run.    *)
(* Only a click between reading and writing the checkpoint is ahead of it. *)
Backed(r, a) == a # "none" => \E d \in decided : OnRun[d] = r /\ verdict[d] = a

Accepted == {"checked", "loaded"}
Resumed == {"stored", "running", "asked", "calling", "called", "appending", "cleanup"}

ClicksDecide ==
    \A c \in Clicks :
        /\ pc[c] \in Accepted \cup {"idle"} => c \notin decided
        /\ pc[c] \in Accepted \/ c \in decided => verdict[c] # "none"
        /\ pc[c] \in Resumed => c \in decided
        /\ pc[c] = "loaded" => mem[c].approval = verdict[c]

HeadsBacked == \A r \in Runs : Backed(r, head[r].approval)

CopiesBacked ==
    \A p \in Processes : pc[p] # "loaded" => Backed(RunOf(p), mem[p].approval)

RowsBacked == \A row \in rows : Backed(row.run, row.approved)

DecisionInv == ClicksDecide /\ HeadsBacked /\ CopiesBacked /\ RowsBacked

(* A click's decision buys at most one write and one row: a click that can *)
(* still reach the call has not written, one that can still reach audit    *)
(* has no row.                                                             *)
Unspent == {"absent", "detect", "investigate", "propose", "apply_mutation"}
Fresh(c) ==
    \/ pc[c] \in Accepted \cup {"idle", "stored", "asked", "calling"}
    \/ pc[c] = "running" /\ mem[c].next \in Unspent

SpendInv ==
    /\ \A c \in Clicks : Fresh(c) => c \notin writers
    /\ \A c \in Clicks : pc[c] \notin Stopped \cup {"cleanup"} =>
          \A row \in rows : row.by # c
    /\ \A c \in Clicks : pc[c] = "calling" => mem[c].approval = "approved"

(* A click that is about to call Shopify passed the mode test in this life *)
(* of the server: a restart that changes the mode loses it.                *)
ModeInv == \A c \in Clicks : pc[c] = "calling" => ~shadow

(* The error of a failed write stays with its click until audit reports    *)
(* it, or the task ends before.                                            *)
Failing(c) == mem[c].error /\ ~mem[c].applied
AlertDue(c) ==
    \/ pc[c] = "called" /\ Failing(c)
    \/ /\ pc[c] \in {"running", "appending", "cleanup"} /\ Failing(c)
       /\ mem[c].next \in {"verify", "notify", "audit"}
    \/ pc[c] = "closed" /\ c \in alerts
    \/ pc[c] \in {"done", "failed", "dead"}

AlertInv == \A k \in Keys : \A c \in window[k] : c \notin landed => AlertDue(c)

(* What has left the system is accounted for: a write has its click's      *)
(* decision and an approval of its run behind it, a row says which         *)
(* decision it closes, and is the only one to do so.                       *)
LogInv ==
    /\ \A c \in writers : c \in decided /\ Backed(OnRun[c], "approved")
    /\ \A row \in rows : row.by \in decided /\ OnRun[row.by] = row.run
    /\ \A row \in rows : row.resolution = "rejected" => row.approved = "rejected"
    /\ \A row, other \in rows : row.by = other.by => row = other

(* With durable checkpoints and operators who wait for the interrupt, a    *)
(* run's starter is through when the first click begins, and from the      *)
(* first stored decision on every copy of the run carries one.             *)
Early == {"absent", "detect", "investigate", "propose"}
Carrying == {"loaded", "running", "asked", "calling", "called", "appending", "cleanup"}

StartersThrough ==
    /\ \A r \in Runs : AtInterrupt(r) => pc[r] \notin {"idle", "running", "asked"}
    /\ \A c \in Clicks : pc[c] # "idle" => AtInterrupt(OnRun[c])

CopiesDecided ==
    /\ \A c \in decided : head[OnRun[c]].approval # "none"
    /\ \A c \in Clicks : pc[c] \in Carrying =>
          mem[c].next \notin Early /\ mem[c].approval # "none"

OrderInv == Durable /\ Patient => StartersThrough /\ CopiesDecided /\ RowsAreDecided

Inv ==
    /\ TypeInv /\ KeyInv /\ DecisionInv /\ SpendInv /\ ModeInv
    /\ AlertInv /\ LogInv /\ OrderInv
=============================================================================

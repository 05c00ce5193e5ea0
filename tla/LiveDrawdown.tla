---------------------------- MODULE LiveDrawdown ----------------------------
(***************************************************************************)
(* The drawdown sentinel as the live sweep uses it: run_full_arms_cycle    *)
(* of main.py takes the high-water mark from the file of                   *)
(* engine/pds_state.py, checks the NAV against it, and updates the file.   *)
(* Every attempt of the sweep does so again, and the process may stop      *)
(* between any two of its steps.                                           *)
(*                                                                         *)
(* The file is truncated when it is opened for writing and written after   *)
(* that: a stop in between leaves it empty, which reads as no mark at all. *)
(***************************************************************************)
EXTENDS DrawdownSentinel

CONSTANT Navs       \* NAVs the portfolio may have; main.py requires nav > 0

ASSUME NavsAssumption == Navs \subseteq Nat \ {0}

NoMark == 0         \* no file, or a file that does not parse

VARIABLES
    pc,         \* what the sweep does next
    nav,        \* the NAV it works with
    mark,       \* what it has last read of the file
    file,       \* the persisted high-water mark
    status,     \* pds_res.status of the last check
    peak        \* history: the highest NAV a sweep has recorded

markVars == <<pc, nav, mark, file, status, peak>>

MarkInit ==
    /\ pc = "idle" /\ nav \in Navs
    /\ mark = NoMark /\ file = NoMark
    /\ status = "NORMAL"
    /\ peak = NoMark

Higher(a, b) == IF a > b THEN a ELSE b

\* Mutant: no default where there is no mark.
MarkUnset(read, default) == read

\* load_high_water_mark(nav): the NAV itself where there is no mark.
MarkOr(read, default) == IF read = NoMark THEN default ELSE read

----------------------------------------------------------------------------
\* An attempt of the sweep reads the NAV from the broker.
Begin ==
    /\ pc = "idle" /\ pc' = "check"
    /\ nav' \in Navs
    /\ UNCHANGED <<mark, file, status, peak>>

\* hwm = load_high_water_mark(nav); run_pds_check(nav, hwm). No last status is
\* passed, so the check takes it as NORMAL.
Check ==
    /\ pc = "check" /\ pc' = "read"
    /\ mark' = MarkOr(file, nav)
    /\ status' = PdsStatus(nav, mark', "NORMAL")
    /\ UNCHANGED <<nav, file, peak>>

\* update_high_water_mark reads the file a second time.
ReadAgain ==
    /\ pc = "read" /\ pc' = "open"
    /\ mark' = MarkOr(file, nav)
    /\ UNCHANGED <<nav, file, status, peak>>

\* _write_state opens the file for writing, which truncates it, ...
Truncate ==
    /\ pc = "open" /\ pc' = "write"
    /\ file' = NoMark
    /\ UNCHANGED <<nav, mark, status, peak>>

\* Mutant: the last NAV is written instead.
WriteNav ==
    /\ pc = "write" /\ pc' = "idle"
    /\ file' = nav
    /\ peak' = Higher(peak, nav)
    /\ UNCHANGED <<nav, mark, status>>

\* ... and writes the maximum of the mark and the NAV.
Write ==
    /\ pc = "write" /\ pc' = "idle"
    /\ file' = Higher(mark, nav)
    /\ peak' = Higher(peak, nav)
    /\ UNCHANGED <<nav, mark, status>>

\* The process stops between two steps. Later attempts start from the file.
Stop ==
    /\ pc # "idle" /\ pc' = "idle"
    /\ UNCHANGED <<nav, mark, file, status, peak>>

\* The attempt fails elsewhere before it opens the file.
Raise == pc \in {"check", "read", "open"} /\ Stop

Steps == Begin \/ Check \/ ReadAgain \/ Truncate \/ Write

\* Processes run their file writes to the end ...
MarkSpec == MarkInit /\ [][Steps \/ Raise]_markVars
\* ... or may be killed in the middle of one.
MarkCrashSpec == MarkInit /\ [][Steps \/ Stop]_markVars

----------------------------------------------------------------------------
MarkTypeOK ==
    /\ pc \in {"idle", "check", "read", "open", "write"}
    /\ nav \in Navs
    /\ {mark, file, peak} \subseteq Navs \cup {NoMark}
    /\ pc \in {"read", "open", "write"} => mark # NoMark
    /\ status \in PdsStatuses

\* The persisted mark is the highest NAV a finished update has seen, however
\* many attempts were made and given up, except while it is being written.
MarkIsPeak == pc # "write" => file = peak

\* Once a sweep has checked the drawdown, its ceiling covers the drawdown from
\* the highest NAV ever recorded, not only from the last one.
CeilingCoversPeak ==
    pc = "read" /\ peak # NoMark =>
        /\ Down(12, nav, peak) => PdsCeiling(status) <= 600
        /\ Down(18, nav, peak) => PdsCeiling(status) <= 300

\* pds_state.py stores the mark "so the live system uses durable state across
\* process boots": the mark a sweep checks against is the highest NAV recorded.
MarkIsDurable == pc = "read" => mark >= peak

\* drawdown_sentinel.py: "DELEVERAGE_1 exits only when DD recovers above WARNING
\* threshold (-8%)", from one check of the live system to the next.
ExitIsHysteretic ==
    [][status = "DELEVERAGE_1" /\ ~Deleveraged(status') => ~Down(8, nav, mark')]_status

=============================================================================

------------------------------- MODULE Meter --------------------------------
(***************************************************************************)
(* The notarization meter (crates/node/src/meter.rs): a count per window,  *)
(* capped by the license and kept in a file across restarts.               *)
(***************************************************************************)
EXTENDS License, Sequences, FiniteSets

CONSTANTS
    WindowSecs,     \* the length of a window
    MaxTime         \* bound: the clock

VARIABLES
    now,            \* the wall clock
    cap,            \* the licensed volume per window, or Unlimited
    count,          \* submissions counted in the window
    windowStart,
    meterFile,      \* what persist wrote
    accepted,       \* the times of the counted submissions, in order
    dirty,          \* the last write of the file failed or was cut short
    resets          \* how many starts came after such a write or lost the count
                    \* because the file could not be read

meterVars == <<now, cap, count, windowStart, meterFile, accepted, dirty, resets>>

ASSUME MeterAssumption ==
    /\ WindowSecs \in Nat \ {0}
    /\ MaxTime \in Nat
    /\ Absent \notin [count : Nat, windowStart : Nat]
    /\ Torn \notin [count : Nat, windowStart : Nat]

MeterInit ==
    /\ now = 0
    /\ cap = 0
    /\ count = 0
    /\ windowStart = 0
    /\ meterFile = Absent
    /\ accepted = <<>>
    /\ dirty = FALSE
    /\ resets = 0

Usage(c, start) == [count |-> c, windowStart |-> start]

\* Dates a window by its end.
RolledToEnd(u) ==
    IF now >= u.windowStart + WindowSecs THEN Usage(0, now + WindowSecs) ELSE u

\* Meter::roll: what is counted at the present time, and since when.
Rolled(u) == IF now >= u.windowStart + WindowSecs THEN Usage(0, now) ELSE u

\* What try_record finds, and what it makes of it.
Present == Rolled(Usage(count, windowStart))
Counted == [Present EXCEPT !.count = @ + 1]

WithinCap(u) == cap = Unlimited \/ u.count < cap

\* The count stays in memory only.
PersistNothing(u) == UNCHANGED <<meterFile, dirty>>

\* Meter::persist.  An error is dropped.
Persist(u) ==
    /\ meterFile' \in Written(meterFile, u)
    /\ dirty' = (meterFile' # u)

\* Meter::try_record under the cap.
TryRecord ==
    /\ WithinCap(Present)
    /\ count' = Counted.count
    /\ windowStart' = Counted.windowStart
    /\ Persist(Counted)
    /\ accepted' = Append(accepted, now)
    /\ UNCHANGED <<now, cap, resets>>

\* Meter::try_record at the cap: the submission is refused.
Refuse ==
    /\ ~WithinCap(Present)
    /\ count' = Present.count
    /\ windowStart' = Present.windowStart
    /\ UNCHANGED <<now, cap, meterFile, accepted, dirty, resets>>

\* The process dies, perhaps in persist for a submission it will not answer.
\* The count in memory is kept here as what had been counted.
MeterCrash(submitting) ==
    /\ \/ UNCHANGED <<meterFile, dirty>>
       \/ /\ submitting /\ WithinCap(Present)
          /\ meterFile' \in CutShort(meterFile, Counted) \ {meterFile}
          /\ dirty' = (meterFile' = Torn)
    /\ UNCHANGED <<now, cap, count, windowStart, accepted, resets>>

\* Meter::new on what it reads of the file: restore that, if it parses, and roll.
Restored(file) ==
    Rolled(IF file \in {Absent, Torn} THEN Usage(0, now) ELSE file)

MeterStart(licensed) ==
    /\ cap' = licensed
    /\ \E file \in Read(meterFile) :
         /\ count' = Restored(file).count
         /\ windowStart' = Restored(file).windowStart
         /\ resets' = resets +
              (IF dirty \/ Restored(file) # Restored(meterFile) THEN 1 ELSE 0)
    /\ dirty' = FALSE
    /\ UNCHANGED <<now, meterFile, accepted>>

Tick ==
    /\ now < MaxTime
    /\ now' = now + 1
    /\ UNCHANGED <<cap, count, windowStart, meterFile, accepted, dirty, resets>>

\* The submissions counted from time t up to, not including, time u.
AcceptedIn(t, u) ==
    Cardinality({i \in DOMAIN accepted : t <= accepted[i] /\ accepted[i] < u})
=============================================================================

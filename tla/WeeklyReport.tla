---------------------------- MODULE WeeklyReport ----------------------------
(***************************************************************************)
(* The weekly report (app/services/weekly_report.py): a task that looks    *)
(* every hour whether it is Monday after 8:00 and whether the Redis key    *)
(* last_sent holds today's date; if not, it posts the report and sets the  *)
(* key for 25 hours.                                                       *)
(*                                                                         *)
(* Time runs in thirds of a day: the first third of Monday, the two after  *)
(* 8:00, and WeekSlots - 3 for the rest of the week.                       *)
(***************************************************************************)
EXTENDS ServerLife, Integers

CONSTANT WeekSlots

ASSUME ReportAssumption == WeekSlots \in Nat /\ WeekSlots >= 4

VARIABLES
    slot,        \* of the week; Monday begins in slot 0
    monday,      \* which Monday's date it is; two take turns
    lastSent,    \* the date in the key, if it exists
    expiresIn,   \* life of the key
    report,      \* where the task is
    looked,      \* the task has looked in this slot
    attempts,    \* reports made for this Monday, counted to 2
    posted,      \* those of them that were posted to Slack
    quiet,       \* server and Redis have been there since 8:00 on Monday
    cutOff       \* this week a report's key was not set, or lost at once

clockVars == <<slot, monday, looked>>
keyVars == <<lastSent, expiresIn>>
reportVars == <<clockVars, keyVars, report, attempts, posted, quiet, cutOff>>

Window == {1, 2}
NoDate == 2

(* Faulty variant: the key lives for an hour. *)
KeyLifeShort == 1

KeyLife == 3

ReportTypeOK ==
    /\ serverUp \in BOOLEAN /\ redisUp \in BOOLEAN
    /\ slot \in 0..WeekSlots - 1
    /\ monday \in {0, 1} /\ lastSent \in {0, 1, NoDate}
    /\ expiresIn \in 0..KeyLife
    /\ report \in {"off", "asleep", "sending", "marking"}
    /\ looked \in BOOLEAN /\ quiet \in BOOLEAN /\ cutOff \in BOOLEAN
    /\ attempts \in 0..2 /\ posted \in 0..2

ReportInit ==
    /\ slot \in 0..WeekSlots - 1 /\ monday = 0
    /\ lastSent = NoDate /\ expiresIn = 0
    /\ report = "asleep"
    /\ looked = FALSE /\ quiet = FALSE /\ cutOff = FALSE
    /\ attempts = 0 /\ posted = 0

Counted(n) == IF n < 2 THEN n + 1 ELSE n

(* Faulty variant: an error ends the task. *)
AfterErrorEnded == "off"

AfterError == "asleep"

Due == slot \in Window /\ lastSent # monday

Look ==
    /\ report = "asleep"
    /\ looked' = TRUE
    /\ report' = IF slot \notin Window THEN "asleep"
                 ELSE IF ~redisUp THEN AfterError
                 ELSE IF Due THEN "sending" ELSE "asleep"
    /\ UNCHANGED <<slot, monday, keyVars, attempts, posted, quiet, cutOff>>

(* A failing query or a failing post is logged; the key is set all the same. *)
SendWeeklyReport ==
    /\ report = "sending"
    /\ attempts' = Counted(attempts)
    /\ posted' \in {posted, Counted(posted)}
    /\ report' = "marking"
    /\ UNCHANGED <<clockVars, keyVars, quiet, cutOff>>

MarkSent ==
    /\ report = "marking"
    /\ report' = IF redisUp THEN "asleep" ELSE AfterError
    /\ lastSent' = IF redisUp THEN monday ELSE lastSent
    /\ expiresIn' = IF redisUp THEN KeyLife ELSE expiresIn
    /\ cutOff' = (cutOff \/ ~redisUp)
    /\ UNCHANGED <<clockVars, attempts, posted, quiet>>

(* A slot has room for several looks and leaves time for one at least. *)
Clock ==
    /\ report = "off" \/ (report = "asleep" /\ looked)
    /\ slot' = (slot + 1) % WeekSlots
    /\ looked' = FALSE
    /\ expiresIn' = IF expiresIn > 0 THEN expiresIn - 1 ELSE 0
    /\ lastSent' = IF expiresIn > 1 THEN lastSent ELSE NoDate
    /\ quiet' = IF slot = 0 THEN Up ELSE quiet
    /\ IF slot' = 0
       THEN monday' = 1 - monday /\ attempts' = 0 /\ posted' = 0 /\ cutOff' = FALSE
       ELSE UNCHANGED <<monday, attempts, posted, cutOff>>
    /\ UNCHANGED report

ReportStops ==
    /\ report' = "off"
    /\ quiet' = FALSE /\ cutOff' = (cutOff \/ report = "marking")
    /\ UNCHANGED <<clockVars, keyVars, attempts, posted>>

ReportStarts ==
    /\ report' = "asleep" /\ looked' = FALSE
    /\ UNCHANGED <<slot, monday, keyVars, attempts, posted, quiet, cutOff>>

(* Redis keeps its keys on disk (docker-compose.yml: appendfsync everysec), *)
(* but for what the last second wrote.                                       *)
ReportLosesRedis ==
    /\ quiet' = FALSE
    /\ \/ UNCHANGED <<keyVars, cutOff>>
       \/ expiresIn = KeyLife /\ expiresIn' = 0 /\ lastSent' = NoDate /\ cutOff' = TRUE
    /\ UNCHANGED <<clockVars, report, attempts, posted>>

ReportTask == Look \/ SendWeeklyReport \/ MarkSent

ReportNext == ReportTask \/ Clock

-----------------------------------------------------------------------------
(* Properties *)

(* A Monday sees one report, over all looks of the day and all restarts:   *)
(* only a server or Redis lost between the post and the stored key repeats  *)
(* it.                                                                      *)
OneReport == posted > 1 => cutOff

(* A Monday on which nothing goes away from 8:00 on does not pass without a *)
(* report having been attempted, whatever happened in the weeks before.     *)
MondaysAreTried ==
    [][quiet /\ slot \in Window /\ slot' \notin Window => attempts > 0]_reportVars
=============================================================================

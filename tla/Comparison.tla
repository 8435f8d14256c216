----------------------------- MODULE Comparison -----------------------------
(***************************************************************************)
(* Is the copy still the row that was sent? Validation asks it of the      *)
(* legacy row and the answer of a service (_cmp_user, _cmp_sale), rollback *)
(* of the payload the run stored and the answer of a service               *)
(* (_matches_snapshot). The two compare differently - numbers with int()   *)
(* and with str(), an unreadable answer by an exception and by a mismatch, *)
(* both created_at to within a second - while the other modules have one   *)
(* equality. Here one row makes its journey with its fields in full: read, *)
(* sent, stored by the service and edited on either side.                  *)
(***************************************************************************)
EXTENDS Integers

CONSTANTS
    NumberFields,   \* {"id"} of a user; {"id", "user_id", "quantity"} of a sale
    Wholes,         \* the numbers of the legacy rows
    Texts,          \* name, item_name
    Clocks,         \* what a clock shows, in ticks
    Offset,         \* per time zone its distance from UTC, in ticks
    Second,         \* ticks in a second
    AnswerForms,    \* the forms in which a service prints its numbers
    MaxEdits        \* bound: edits of the row, on both sides together

Zones == DOMAIN Offset
Form == {"int", "text", "float", "missing"}
TextAnswer == Texts \union {"missing"}

ASSUME ComparisonConstants ==
    /\ Wholes \subseteq Int /\ Clocks \subseteq Int
    /\ Offset \in [Zones -> Int]
    /\ {"naive", "UTC"} \subseteq Zones /\ "unparseable" \notin Zones
    /\ Offset["naive"] = 0 /\ Offset["UTC"] = 0
    /\ Second \in Nat \ {0} /\ MaxEdits \in Nat
    /\ AnswerForms \subseteq {"int", "text", "float"}
    /\ "missing" \notin Texts

VARIABLES
    legacy,    \* the row in the monolith
    stored,    \* payload_json of the run's item
    remote,    \* what GET of the service answers
    stage,     \* the row is still to be "read", was "sent", is "copied"
    edited,    \* history: who has written the row since it was sent
    edits      \* edits so far

cvars == <<legacy, stored, remote, stage, edited, edits>>

(***************************************************************************)
(* Rows. A date is what a clock of some time zone, or of none, shows; its  *)
(* ISO text says the same, Z and +00:00 alike. Numbers of legacy rows and  *)
(* payloads are ints; a service may print 3, "3" or 3.0, and may leave out any field.         *)
(***************************************************************************)
Number == [whole : Int, form : Form]
DateTime == [clock : Int, zone : Zones \union {"unparseable"}]
Row == [number : [NumberFields -> Number], text : TextAnswer, at : DateTime]

LegacyRow ==
    [number : [NumberFields -> [whole : Wholes, form : {"int"}]], text : Texts,
     at : [clock : Clocks, zone : Zones]]

(***************************************************************************)
(* models.py: the comparison of dates.                                     *)
(***************************************************************************)

(* Mutant: the zone is dropped, not converted. *)
ZoneDropped(value) == [clock |-> value.clock, zone |-> "UTC"]

(* A date without a zone is one of UTC. *)
to_utc(value) ==
    LET aware == IF value.zone = "naive" THEN [value EXCEPT !.zone = "UTC"] ELSE value IN
    [clock |-> aware.clock - Offset[aware.zone], zone |-> "UTC"]

(* Mutant: abs is forgotten. *)
NotMuchLater(a, b) == to_utc(a).clock - to_utc(b).clock <= Second

(* CREATED_AT_TOLERANCE_SECONDS is one second. *)
datetimes_equal(a, b) ==
    /\ to_utc(a).clock - to_utc(b).clock <= Second
    /\ to_utc(b).clock - to_utc(a).clock <= Second

(***************************************************************************)
(* validation.py: _cmp_user and _cmp_sale. All fields are looked at; what  *)
(* cannot be read raises and ends the run.                                 *)
(***************************************************************************)
Unreadable(r) ==
    \/ r.at.zone = "unparseable" \/ r.text = "missing"
    \/ \E f \in NumberFields : r.number[f].form = "missing"

Divergent(leg, rem) ==
    {f \in NumberFields : rem.number[f].whole # leg.number[f].whole}
        \union (IF rem.text # leg.text THEN {"name"} ELSE {})
        \union (IF datetimes_equal(leg.at, rem.at) THEN {} ELSE {"created_at"})

Validation(leg, rem) ==
    IF Unreadable(rem) THEN "raises"
    ELSE IF Divergent(leg, rem) # {} THEN "diverges" ELSE "accepts"

(***************************************************************************)
(* rollback.py: _matches_snapshot.                                         *)
(***************************************************************************)

(* str(): 3 and "3" print alike, 3.0 does not; .get makes None of a missing field,
   which prints as no number does, but as a name may. *)
Printed(n) == <<n.whole, IF n.form = "text" THEN "int" ELSE n.form>>
PrintedText(t) == IF t = "missing" THEN "None" ELSE t

(* Mutant: an unreadable date is passed over. *)
MatchesUndated(sto, rem) ==
    /\ \A f \in NumberFields : Printed(sto.number[f]) = Printed(rem.number[f])
    /\ PrintedText(sto.text) = PrintedText(rem.text)
    /\ rem.at.zone # "unparseable" => datetimes_equal(sto.at, rem.at)

MatchesSnapshot(sto, rem) ==
    /\ \A f \in NumberFields : Printed(sto.number[f]) = Printed(rem.number[f])
    /\ PrintedText(sto.text) = PrintedText(rem.text)
    /\ rem.at.zone # "unparseable" /\ datetimes_equal(sto.at, rem.at)

(***************************************************************************)
(* The journey of the row.                                                 *)
(***************************************************************************)
CInit ==
    /\ legacy \in LegacyRow
    /\ stored = legacy /\ remote = legacy      \* not looked at before stage "copied"
    /\ stage = "read" /\ edited = {} /\ edits = 0

(* Mutant: what is stored of the date cannot be read back. *)
SendUnreadable ==
    /\ stage = "read"
    /\ stored' = [legacy EXCEPT !.at.zone = "unparseable"]
    /\ stage' = "sent"
    /\ UNCHANGED <<legacy, remote, edited, edits>>

(* The import: the payload is sent, and stored with the item, as the row was read. *)
Send ==
    /\ stage = "read"
    /\ stored' = legacy
    /\ stage' = "sent"
    /\ UNCHANGED <<legacy, remote, edited, edits>>

(* The moment a date stands for; the naive ones are UTC everywhere. *)
Moment(d) == d.clock - Offset[d.zone]

(* The service keeps the moment, less what its precision drops of a second, and
   answers it in any zone. *)
Insert ==
    /\ stage = "sent"
    /\ \E form \in AnswerForms, zone \in Zones, dropped \in 0 .. Second - 1 :
         remote' =
             [number |-> [f \in NumberFields |->
                             [whole |-> stored.number[f].whole, form |-> form]],
              text |-> stored.text,
              at |-> [clock |-> Moment(stored.at) - dropped + Offset[zone],
                      zone |-> zone]]
    /\ stage' = "copied"
    /\ UNCHANGED <<legacy, stored, edited, edits>>

Edits(who) == edits < MaxEdits /\ edits' = edits + 1 /\ edited' = edited \union {who}

LegacyEdit ==
    /\ stage # "read"
    /\ Edits("legacy")
    /\ legacy' \in LegacyRow
    /\ UNCHANGED <<stored, remote, stage>>

(* A client of the service, or a new version of it, which prints differently. *)
ServiceEdit ==
    /\ stage = "copied"
    /\ Edits("service")
    /\ \/ \E f \in NumberFields, w \in Wholes, form \in Form :
            remote' = [remote EXCEPT !.number[f] = [whole |-> w, form |-> form]]
       \/ \E t \in TextAnswer : remote' = [remote EXCEPT !.text = t]
       \/ \E c \in Clocks, z \in Zones \union {"unparseable"} :
            remote' = [remote EXCEPT !.at = [clock |-> c, zone |-> z]]
    /\ UNCHANGED <<legacy, stored, stage>>

CNext == Send \/ Insert \/ LegacyEdit \/ ServiceEdit
CSpec == CInit /\ [][CNext]_cvars

(***************************************************************************)
(* Properties.                                                             *)
(***************************************************************************)

(* The rows keep their shape; what was read and what was sent is readable. *)
ComparisonTypeOK ==
    /\ legacy \in LegacyRow /\ stored \in LegacyRow /\ remote \in Row
    /\ stage \in {"read", "sent", "copied"}
    /\ edited \subseteq {"legacy", "service"}
    /\ edits \in 0 .. MaxEdits

(* models.py:12: a copy nobody has written since is accepted by validation, however
   the service prints its numbers and zones and although it keeps no fractions of a
   second; rollback accepts it too, unless 3 is printed as 3.0. *)
FaithfulCopyAccepted ==
    stage = "copied" /\ edited = {} =>
        /\ Validation(legacy, remote) = "accepts"
        /\ (\A f \in NumberFields : remote.number[f].form # "float")
               => MatchesSnapshot(stored, remote)

(* rollback.py:48-62 next to validation.py:24-47: as long as the monolith has not
   written the row, rollback accepts no copy that validation rejects or cannot read,
   whatever was done to it in the service - but for a row named "None", which
   str() cannot tell from a row without a name. *)
RollbackStricter ==
    /\ stage = "copied" /\ "legacy" \notin edited /\ stored.text # "None"
    /\ MatchesSnapshot(stored, remote)
    => Validation(legacy, remote) = "accepts"

(* models.py:129: equality to within a second is not transitive, but it does not
   add up over edits either: a copy that both accept says that the row as it is and
   the row as it was sent have the same numbers and text, and are created within two
   seconds of each other. *)
DriftBounded ==
    /\ stage = "copied"
    /\ MatchesSnapshot(stored, remote) /\ Validation(legacy, remote) = "accepts"
    => /\ \A f \in NumberFields : legacy.number[f].whole = stored.number[f].whole
       /\ legacy.text = stored.text
       /\ Moment(legacy.at) - Moment(stored.at) \in -(2 * Second) .. 2 * Second
=============================================================================

-------------------------- MODULE ComparisonProofs --------------------------
(***************************************************************************)
(* Comparison for every time zone, tolerance and number of edits.          *)
(***************************************************************************)
EXTENDS Comparison, TLAPS

(* What the service may have made of the payload while nobody edits the row. *)
Rendered ==
    /\ \A f \in NumberFields :
         /\ remote.number[f].whole = stored.number[f].whole
         /\ remote.number[f].form # "missing"
    /\ remote.text = stored.text
    /\ remote.at.zone \in Zones
    /\ Moment(stored.at) - Moment(remote.at) \in 0 .. Second - 1

(* The strengthening: only an edit tells the two sides from what was sent. *)
CInv ==
    /\ ComparisonTypeOK
    /\ "legacy" \notin edited => legacy = stored
    /\ stage = "copied" /\ edited = {} => Rendered

(***************************************************************************)
(* The comparison of dates.                                                *)
(***************************************************************************)
ReadableDate == [clock : Int, zone : Zones]

(* models.py:122-125: a date is converted to the moment it stands for. *)
LEMMA ToUtcIsTheMoment ==
    ASSUME NEW d \in ReadableDate
    PROVE  to_utc(d).clock = Moment(d) /\ Moment(d) \in Int
<1>1. d.clock \in Int /\ d.zone \in Zones /\ Offset[d.zone] \in Int
  BY ComparisonConstants DEF ReadableDate, Zones
<1>2. CASE d.zone = "naive"
  <2>1. to_utc(d).clock = d.clock - Offset["UTC"]
    BY <1>2 DEF to_utc, ReadableDate
  <2>2. QED
    BY <1>1, <1>2, <2>1, ComparisonConstants DEF Moment
<1>3. CASE d.zone # "naive"
  BY <1>1, <1>3 DEF to_utc, Moment
<1>4. QED
  BY <1>2, <1>3

(* models.py:128-129: equality is closeness of moments, whatever the zones. *)
LEMMA EqualityIsCloseness ==
    ASSUME NEW a \in ReadableDate, NEW b \in ReadableDate
    PROVE  datetimes_equal(a, b) <=>
               Moment(a) - Moment(b) <= Second /\ Moment(b) - Moment(a) <= Second
BY ToUtcIsTheMoment DEF datetimes_equal

(* Which side is compared with which does not matter, and two equalities in a row
   leave at most two seconds. *)
THEOREM TwoSeconds ==
    ASSUME NEW a \in ReadableDate, NEW b \in ReadableDate, NEW c \in ReadableDate,
           datetimes_equal(a, b), datetimes_equal(c, b)
    PROVE  Moment(c) - Moment(a) \in -(2 * Second) .. 2 * Second
<1>1. /\ Moment(a) - Moment(b) <= Second /\ Moment(b) - Moment(a) <= Second
      /\ Moment(c) - Moment(b) <= Second /\ Moment(b) - Moment(c) <= Second
  BY EqualityIsCloseness
<1>2. Moment(a) \in Int /\ Moment(b) \in Int /\ Moment(c) \in Int /\ Second \in Nat
  BY ToUtcIsTheMoment, ComparisonConstants
<1>3. QED
  BY <1>1, <1>2

(***************************************************************************)
(* The invariant.                                                          *)
(***************************************************************************)
LEMMA LegacyRowFacts ==
    ASSUME NEW r \in LegacyRow
    PROVE  /\ r.number \in [NumberFields -> [whole : Wholes, form : {"int"}]]
           /\ \A f \in NumberFields :
                r.number[f].whole \in Int /\ r.number[f].form = "int"
           /\ r.text \in Texts /\ r.text # "missing" /\ PrintedText(r.text) = r.text
           /\ r.at \in ReadableDate
           /\ r \in Row
BY ComparisonConstants DEF LegacyRow, ReadableDate, Row, Number, DateTime, Form, TextAnswer,
   PrintedText

LEMMA RemoteRowFacts ==
    ASSUME NEW r \in Row
    PROVE  /\ r.number \in [NumberFields -> Number]
           /\ \A f \in NumberFields : r.number[f].whole \in Int /\ r.number[f].form \in Form
           /\ r.at.clock \in Int
           /\ r.at.zone # "unparseable" => r.at \in ReadableDate
BY DEF ReadableDate, Row, Number, DateTime

LEMMA InitCInv == CInit => CInv
<1>1. SUFFICES ASSUME CInit PROVE CInv
  OBVIOUS
<1>2. legacy \in LegacyRow /\ stored = legacy /\ remote = legacy /\ remote \in Row
  BY <1>1, LegacyRowFacts DEF CInit
<1>3. stage = "read" /\ edited = {} /\ edits \in 0 .. MaxEdits
  BY <1>1, ComparisonConstants DEF CInit
<1>4. QED
  BY <1>2, <1>3 DEF CInv, ComparisonTypeOK

LEMMA SendCInv == ASSUME CInv, Send PROVE CInv'
<1>1. stored' = legacy /\ stage' = "sent" /\ UNCHANGED <<legacy, remote, edited, edits>>
  BY DEF Send
<1>2. ComparisonTypeOK'
  BY <1>1 DEF CInv, ComparisonTypeOK
<1>3. QED
  BY <1>1, <1>2 DEF CInv

LEMMA InsertCInv == ASSUME CInv, Insert PROVE CInv'
<1>1. stage' = "copied" /\ UNCHANGED <<legacy, stored, edited, edits>>
  BY DEF Insert
<1>2. PICK form \in AnswerForms, zone \in Zones, dropped \in 0 .. Second - 1 :
         remote' =
             [number |-> [f \in NumberFields |->
                             [whole |-> stored.number[f].whole, form |-> form]],
              text |-> stored.text,
              at |-> [clock |-> Moment(stored.at) - dropped + Offset[zone],
                      zone |-> zone]]
  BY DEF Insert
<1>3. stored \in LegacyRow
  BY DEF CInv, ComparisonTypeOK
<1>4. form \in {"int", "text", "float"} /\ zone # "unparseable" /\ Offset[zone] \in Int
      /\ Second \in Nat /\ dropped \in Int
  BY ComparisonConstants DEF Zones
<1>5. Moment(stored.at) \in Int
  BY <1>3, LegacyRowFacts, ToUtcIsTheMoment
<1>6. /\ remote'.number = [f \in NumberFields |->
                             [whole |-> stored.number[f].whole, form |-> form]]
      /\ remote'.text = stored.text
      /\ remote'.at = [clock |-> Moment(stored.at) - dropped + Offset[zone], zone |-> zone]
  BY <1>2
<1>7. remote' \in Row
  <2>1. remote'.number \in [NumberFields -> Number]
    BY <1>3, <1>4, <1>6, LegacyRowFacts DEF Number, Form
  <2>2. remote'.at \in DateTime
    BY <1>4, <1>5, <1>6 DEF DateTime
  <2>3. stored.text \in Texts
    BY <1>3, LegacyRowFacts
  <2>4. QED
    BY <1>2, <1>6, <2>1, <2>2, <2>3 DEF Row, TextAnswer
<1>8. Rendered'
  <2>1. \A f \in NumberFields :
          remote'.number[f].whole = stored.number[f].whole
          /\ remote'.number[f].form # "missing"
    BY <1>4, <1>6
  <2>2. Moment(remote'.at) = Moment(stored.at) - dropped
    <3>1. remote'.at.clock = Moment(stored.at) - dropped + Offset[zone]
          /\ remote'.at.zone = zone
      BY <1>6
    <3>2. Moment(remote'.at) = remote'.at.clock - Offset[zone]
      BY <3>1 DEF Moment
    <3>3. QED
      BY <3>1, <3>2, <1>4, <1>5
  <2>3. Moment(stored.at) - Moment(remote'.at) = dropped
    BY <2>2, <1>4, <1>5
  <2>4. stored' = stored /\ remote'.at.zone \in Zones
    BY <1>1, <1>6
  <2>5. QED
    BY <1>6, <2>1, <2>3, <2>4 DEF Rendered, Moment
<1>9. ComparisonTypeOK'
  BY <1>1, <1>7 DEF CInv, ComparisonTypeOK
<1>10. QED
  BY <1>1, <1>8, <1>9 DEF CInv

LEMMA LegacyEditCInv == ASSUME CInv, LegacyEdit PROVE CInv'
<1>1. /\ legacy' \in LegacyRow /\ UNCHANGED <<stored, remote, stage>>
      /\ edits < MaxEdits /\ edits' = edits + 1 /\ edited' = edited \union {"legacy"}
  BY DEF LegacyEdit, Edits
<1>2. edits' \in 0 .. MaxEdits /\ edited' \subseteq {"legacy", "service"}
  BY <1>1, ComparisonConstants DEF CInv, ComparisonTypeOK
<1>3. ComparisonTypeOK'
  BY <1>1, <1>2 DEF CInv, ComparisonTypeOK
<1>4. QED
  BY <1>1, <1>3 DEF CInv

LEMMA ServiceEditCInv ==
    ASSUME CInv, ServiceEdit, Wholes \subseteq Int, Clocks \subseteq Int PROVE CInv'
<1>1. /\ UNCHANGED <<legacy, stored, stage>>
      /\ edits < MaxEdits /\ edits' = edits + 1 /\ edited' = edited \union {"service"}
  BY DEF ServiceEdit, Edits
<1>2. edits' \in 0 .. MaxEdits /\ edited' \subseteq {"legacy", "service"}
  BY <1>1, ComparisonConstants DEF CInv, ComparisonTypeOK
<1>3. remote \in Row
  BY DEF CInv, ComparisonTypeOK
<1>4. remote' \in Row
  <2>1. CASE \E f \in NumberFields, w \in Wholes, form \in Form :
               remote' = [remote EXCEPT !.number[f] = [whole |-> w, form |-> form]]
    BY <1>3, <2>1 DEF Row, Number
  <2>2. CASE \E t \in TextAnswer : remote' = [remote EXCEPT !.text = t]
    BY <1>3, <2>2 DEF Row
  <2>3. CASE \E c \in Clocks, z \in Zones \union {"unparseable"} :
               remote' = [remote EXCEPT !.at = [clock |-> c, zone |-> z]]
    BY <1>3, <2>3 DEF Row, DateTime
  <2>4. QED
    BY <2>1, <2>2, <2>3 DEF ServiceEdit
<1>5. ComparisonTypeOK'
  BY <1>1, <1>2, <1>4 DEF CInv, ComparisonTypeOK
<1>6. QED
  BY <1>1, <1>5 DEF CInv

LEMMA NextCInv == CInv /\ [CNext]_cvars => CInv'
<1>1. SUFFICES ASSUME CInv, [CNext]_cvars PROVE CInv'
  OBVIOUS
<1>2. CASE Send
  BY <1>1, <1>2, SendCInv
<1>3. CASE Insert
  BY <1>1, <1>3, InsertCInv
<1>4. CASE LegacyEdit
  BY <1>1, <1>4, LegacyEditCInv
<1>5. CASE ServiceEdit
  BY <1>1, <1>5, ServiceEditCInv, ComparisonConstants
<1>6. CASE UNCHANGED cvars
  BY <1>1, <1>6 DEF cvars, CInv, ComparisonTypeOK, Rendered, Moment
<1>7. QED
  BY <1>1, <1>2, <1>3, <1>4, <1>5, <1>6 DEF CNext

LEMMA SpecCInv == CSpec => []CInv
<1>1. QED
  BY InitCInv, NextCInv, PTL DEF CSpec

(***************************************************************************)
(* What follows from it.                                                   *)
(***************************************************************************)

(* What Validation accepts, spelled out. *)
LEMMA Accepted ==
    ASSUME NEW leg \in LegacyRow, NEW rem \in Row
    PROVE  Validation(leg, rem) = "accepts" <=>
               /\ rem.at.zone # "unparseable"
               /\ \A f \in NumberFields :
                    /\ rem.number[f].form # "missing"
                    /\ rem.number[f].whole = leg.number[f].whole
               /\ rem.text = leg.text
               /\ datetimes_equal(leg.at, rem.at)
<1>1. Validation(leg, rem) = "accepts" <=> ~ Unreadable(rem) /\ Divergent(leg, rem) = {}
  BY DEF Validation
<1>2. Divergent(leg, rem) = {} <=>
        /\ \A f \in NumberFields : rem.number[f].whole = leg.number[f].whole
        /\ rem.text = leg.text
        /\ datetimes_equal(leg.at, rem.at)
  BY DEF Divergent
<1>3. QED
  BY <1>1, <1>2, LegacyRowFacts DEF Unreadable

(* What rollback accepts: the payload printed ints, and a name that may be missing. *)
LEMMA Matched ==
    ASSUME NEW sto \in LegacyRow, NEW rem \in Row
    PROVE  MatchesSnapshot(sto, rem) <=>
               /\ rem.at.zone # "unparseable"
               /\ \A f \in NumberFields :
                    /\ rem.number[f].form \in {"int", "text"}
                    /\ rem.number[f].whole = sto.number[f].whole
               /\ PrintedText(rem.text) = sto.text
               /\ datetimes_equal(sto.at, rem.at)
<1>1. \A f \in NumberFields :
        Printed(sto.number[f]) = Printed(rem.number[f]) <=>
          /\ rem.number[f].form \in {"int", "text"}
          /\ rem.number[f].whole = sto.number[f].whole
  <2>1. SUFFICES ASSUME NEW f \in NumberFields
                 PROVE  Printed(sto.number[f]) = Printed(rem.number[f]) <=>
                          /\ rem.number[f].form \in {"int", "text"}
                          /\ rem.number[f].whole = sto.number[f].whole
    OBVIOUS
  <2>2. sto.number[f].form = "int" /\ rem.number[f].form \in Form
    BY LegacyRowFacts, RemoteRowFacts
  <2>3. QED
    BY <2>2 DEF Printed, Form
<1>2. QED
  BY <1>1, LegacyRowFacts DEF MatchesSnapshot

(* The type invariant holds of every instance. *)
THEOREM ComparisonTypes == CSpec => []ComparisonTypeOK
<1>1. CInv => ComparisonTypeOK
  BY DEF CInv
<1>2. QED
  BY <1>1, SpecCInv, PTL

(* validation.py:24-53, rollback.py:48-62: a copy that is left alone is accepted by
   both, for every zone it is answered in and every loss of less than a second. *)
THEOREM FaithfulCopies == CSpec => []FaithfulCopyAccepted
<1>1. CInv => FaithfulCopyAccepted
  <2>1. SUFFICES ASSUME CInv, stage = "copied", edited = {}
                 PROVE  /\ Validation(legacy, remote) = "accepts"
                        /\ (\A f \in NumberFields : remote.number[f].form # "float")
                               => MatchesSnapshot(stored, remote)
    BY DEF FaithfulCopyAccepted
  <2>2. legacy = stored /\ Rendered
    BY <2>1 DEF CInv
  <2>3. stored \in LegacyRow /\ remote \in Row
    BY <2>1 DEF CInv, ComparisonTypeOK
  <2>4. remote.at.zone # "unparseable" /\ remote.at \in ReadableDate
    BY <2>2, <2>3, RemoteRowFacts, ComparisonConstants DEF Rendered
  <2>5. stored.at \in ReadableDate
    BY <2>3, LegacyRowFacts
  <2>6. datetimes_equal(stored.at, remote.at)
    <3>1. Moment(stored.at) - Moment(remote.at) \in 0 .. Second - 1
      BY <2>2 DEF Rendered
    <3>2. Moment(stored.at) \in Int /\ Moment(remote.at) \in Int /\ Second \in Nat
      BY <2>4, <2>5, ToUtcIsTheMoment, ComparisonConstants
    <3>3. Moment(stored.at) - Moment(remote.at) <= Second
          /\ Moment(remote.at) - Moment(stored.at) <= Second
      BY <3>1, <3>2
    <3>4. QED
      BY <3>3, <2>4, <2>5, EqualityIsCloseness
  <2>7. Validation(legacy, remote) = "accepts"
    BY <2>2, <2>3, <2>4, <2>6, Accepted DEF Rendered
  <2>8. ASSUME \A f \in NumberFields : remote.number[f].form # "float"
        PROVE  MatchesSnapshot(stored, remote)
    <3>1. \A f \in NumberFields : remote.number[f].form \in {"int", "text"}
      BY <2>2, <2>3, <2>8, RemoteRowFacts DEF Rendered, Form
    <3>2. QED
      BY <2>2, <2>3, <2>4, <2>6, <3>1, Matched, LegacyRowFacts DEF Rendered
  <2>9. QED
    BY <2>7, <2>8
<1>2. QED
  BY <1>1, SpecCInv, PTL

(* rollback.py:48-62 rejects whatever validation.py:24-53 rejects of a copy of what
   was sent. *)
THEOREM RollbackIsStricter == CSpec => []RollbackStricter
<1>1. CInv => RollbackStricter
  <2>1. SUFFICES ASSUME CInv, "legacy" \notin edited, stored.text # "None",
                        MatchesSnapshot(stored, remote)
                 PROVE  Validation(legacy, remote) = "accepts"
    BY DEF RollbackStricter
  <2>2. legacy = stored /\ stored \in LegacyRow /\ remote \in Row
    BY <2>1 DEF CInv, ComparisonTypeOK
  <2>3. remote.text = stored.text
    BY <2>1, <2>2, Matched DEF PrintedText
  <2>4. QED
    BY <2>1, <2>2, <2>3, Matched, Accepted
<1>2. QED
  BY <1>1, SpecCInv, PTL

(* models.py:14: the tolerance lets nothing but the date differ, and the date by two
   seconds at most, after any number of edits. *)
THEOREM DriftIsBounded == CSpec => []DriftBounded
<1>1. CInv => DriftBounded
  <2>1. SUFFICES ASSUME CInv, MatchesSnapshot(stored, remote),
                        Validation(legacy, remote) = "accepts"
                 PROVE  /\ \A f \in NumberFields :
                             legacy.number[f].whole = stored.number[f].whole
                        /\ legacy.text = stored.text
                        /\ Moment(legacy.at) - Moment(stored.at)
                             \in -(2 * Second) .. 2 * Second
    BY DEF DriftBounded
  <2>2. legacy \in LegacyRow /\ stored \in LegacyRow /\ remote \in Row
    BY <2>1 DEF CInv, ComparisonTypeOK
  <2>3. /\ remote.at.zone # "unparseable"
        /\ datetimes_equal(stored.at, remote.at) /\ datetimes_equal(legacy.at, remote.at)
        /\ \A f \in NumberFields : remote.number[f].whole = stored.number[f].whole
        /\ \A f \in NumberFields : remote.number[f].whole = legacy.number[f].whole
        /\ PrintedText(remote.text) = stored.text /\ remote.text = legacy.text
    BY <2>1, <2>2, Matched, Accepted
  <2>4. stored.at \in ReadableDate /\ legacy.at \in ReadableDate
        /\ remote.at \in ReadableDate
    BY <2>2, <2>3, LegacyRowFacts, RemoteRowFacts
  <2>5. Moment(legacy.at) - Moment(stored.at) \in -(2 * Second) .. 2 * Second
    BY <2>3, <2>4, TwoSeconds
  <2>6. legacy.text = stored.text
    BY <2>2, <2>3, LegacyRowFacts
  <2>7. QED
    BY <2>3, <2>5, <2>6
<1>2. QED
  BY <1>1, SpecCInv, PTL
=============================================================================

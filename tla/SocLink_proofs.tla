--------------------------- MODULE SocLink_proofs ---------------------------
(***************************************************************************)
(* The SoC's view of the errors: what udp_interface will have told it of a *)
(* code once the list is sent is what the robot says of that code.         *)
(***************************************************************************)
EXTENDS SocLink, SequenceTheorems, WellFoundedInduction, TLAPS

Entries == [code : Codes, resolved : {1, 2}]

Mentions(list, c) == \E i \in DOMAIN list : list[i].code = c

\* The list says that c has occurred, and nothing else about it.
Occurred(list, c) ==
  Mentions(list, c) /\ \A i \in DOMAIN list : list[i].code = c => list[i].resolved = 1

ListTypes ==
  /\ errorList \in Seq(Entries)
  /\ active \subseteq Codes /\ known \subseteq Codes
  /\ early \subseteq Codes /\ lost \subseteq Codes

\* The list makes the SoC agree with the robot, whenever it is sent.
WillAgree == \A c \in Codes \ lost : c \in Heard(errorList) <=> c \in active

\* A code of which the list says only that it has occurred is new to the SoC,
\* unless that entry was sent already: its release may erase the entry.
NewToTheSoC == \A c \in Codes \ (lost \cup early) : Occurred(errorList, c) => c \notin known

DeafKnowsNothing == ~listening => known = {}

ErrorInv == ListTypes /\ WillAgree /\ NewToTheSoC /\ DeafKnowsNothing
-----------------------------------------------------------------------------
(* The list without one entry: what it says of the other codes stays.      *)
LEMMA Removed ==
  ASSUME NEW list \in Seq(Entries), NEW n \in 1..Len(list)
  PROVE  /\ RemoveAt(list, n) \in Seq(Entries)
         /\ Len(RemoveAt(list, n)) = Len(list) - 1
         /\ \A i \in 1..(Len(list) - 1) :
              RemoveAt(list, n)[i] = IF i < n THEN list[i] ELSE list[i + 1]
<1> DEFINE front == SubSeq(list, 1, n - 1)
           back == SubSeq(list, n + 1, Len(list))
<1>1. front \in Seq(Entries) /\ Len(front) = n - 1 /\ \A i \in 1..(n - 1) : front[i] = list[i]
  BY SubSeqProperties
<1>2. /\ back \in Seq(Entries) /\ Len(back) = Len(list) - n
      /\ \A i \in 1..(Len(list) - n) : back[i] = list[n + i]
  BY SubSeqProperties
<1> HIDE DEF front, back
<1>3. /\ front \o back \in Seq(Entries)
      /\ Len(front \o back) = Len(front) + Len(back)
      /\ \A i \in 1..(Len(front) + Len(back)) :
           (front \o back)[i] = IF i <= Len(front) THEN front[i] ELSE back[i - Len(front)]
  BY <1>1, <1>2, ConcatProperties
<1>4. ASSUME NEW i \in 1..(Len(list) - 1)
      PROVE  (front \o back)[i] = IF i < n THEN list[i] ELSE list[i + 1]
  <2>1. CASE i < n
    BY <2>1, <1>1, <1>2, <1>3
  <2>2. CASE ~(i < n)
    <3>1. i - (n - 1) \in 1..(Len(list) - n) /\ n + (i - (n - 1)) = i + 1
      BY <2>2
    <3>2. (front \o back)[i] = back[i - (n - 1)]
      BY <2>2, <1>1, <1>2, <1>3
    <3> QED
      BY <3>1, <3>2, <1>2, <2>2
  <2> QED
    BY <2>1, <2>2
<1>5. RemoveAt(list, n) = front \o back
  BY DEF RemoveAt, front, back
<1>6. Len(front \o back) = Len(list) - 1
  BY <1>1, <1>2, <1>3
<1> QED
  BY <1>3, <1>4, <1>5, <1>6

LEMMA RemovedOthers ==
  ASSUME NEW list \in Seq(Entries), NEW n \in 1..Len(list),
         NEW c \in Codes, c # list[n].code
  PROVE  /\ \A r \in {1, 2} : LastWord(RemoveAt(list, n), c, r) <=> LastWord(list, c, r)
         /\ Occurred(RemoveAt(list, n), c) <=> Occurred(list, c)
<1> DEFINE rest == RemoveAt(list, n)
           old(i) == IF i < n THEN i ELSE i + 1
           new(i) == IF i < n THEN i ELSE i - 1
<1>1. DOMAIN list = 1..Len(list) /\ DOMAIN rest = 1..(Len(list) - 1)
  BY Removed
<1>2. ASSUME NEW i \in DOMAIN rest
      PROVE  old(i) \in DOMAIN list /\ rest[i] = list[old(i)]
  <2>1. i \in 1..(Len(list) - 1)
    BY <1>1
  <2>2. rest[i] = IF i < n THEN list[i] ELSE list[i + 1]
    BY <2>1, Removed
  <2> QED
    BY <2>1, <2>2, <1>1
<1>3. ASSUME NEW i \in DOMAIN list, list[i].code = c
      PROVE  new(i) \in DOMAIN rest /\ rest[new(i)] = list[i]
  <2>1. i # n
    BY <1>3
  <2>2. new(i) \in 1..(Len(list) - 1) /\ (IF new(i) < n THEN new(i) ELSE new(i) + 1) = i
    BY <2>1, <1>1
  <2> QED
    BY <2>2, <1>1, Removed
<1>4. \A i, j \in DOMAIN rest : j > i => old(j) > old(i)
  BY <1>1
<1>5. \A i, j \in DOMAIN list \ {n} : j > i => new(j) > new(i)
  BY <1>1
<1> HIDE DEF rest, old, new
<1>6. ASSUME NEW r \in {1, 2}
      PROVE  LastWord(rest, c, r) <=> LastWord(list, c, r)
  <2>1. ASSUME LastWord(rest, c, r)
        PROVE  LastWord(list, c, r)
    <3>1. PICK i \in DOMAIN rest : /\ rest[i] = [code |-> c, resolved |-> r]
                                   /\ \A j \in DOMAIN rest : j > i => rest[j].code # c
      BY <2>1 DEF LastWord
    <3>2. ASSUME NEW j \in DOMAIN list, j > old(i), list[j].code = c
          PROVE  FALSE
      <4>1. new(j) \in DOMAIN rest /\ rest[new(j)].code = c
        BY <3>2, <1>3
      <4>2. j # n
        BY <3>2
      <4>3. new(j) > i
        BY <3>2, <4>2, <1>1 DEF old, new
      <4> QED
        BY <4>1, <4>3, <3>1
    <3>3. old(i) \in DOMAIN list /\ list[old(i)] = [code |-> c, resolved |-> r]
      BY <3>1, <1>2
    <3> QED
      BY <3>2, <3>3 DEF LastWord
  <2>2. ASSUME LastWord(list, c, r)
        PROVE  LastWord(rest, c, r)
    <3>1. PICK i \in DOMAIN list : /\ list[i] = [code |-> c, resolved |-> r]
                                   /\ \A j \in DOMAIN list : j > i => list[j].code # c
      BY <2>2 DEF LastWord
    <3>2. new(i) \in DOMAIN rest /\ rest[new(i)] = [code |-> c, resolved |-> r]
      BY <3>1, <1>3
    <3>3. ASSUME NEW j \in DOMAIN rest, j > new(i)
          PROVE  rest[j].code # c
      <4>1. old(j) > i
        BY <3>3, <1>1, <3>1 DEF old, new
      <4> QED
        BY <4>1, <1>2, <3>1
    <3> QED
      BY <3>2, <3>3 DEF LastWord
  <2> QED
    BY <2>1, <2>2
<1>7. Occurred(rest, c) <=> Occurred(list, c)
  BY <1>2, <1>3 DEF Occurred, Mentions
<1> QED
  BY <1>6, <1>7 DEF rest

(* The list with one more entry: that is the last word on its code.        *)
LEMMA Appended ==
  ASSUME NEW list \in Seq(Entries), NEW e \in Entries, NEW c \in Codes, NEW r \in {1, 2}
  PROVE  LastWord(Append(list, e), c, r) <=>
           IF e.code = c THEN e.resolved = r ELSE LastWord(list, c, r)
<1> DEFINE more == Append(list, e)
<1>1. /\ DOMAIN list = 1..Len(list) /\ DOMAIN more = 1..(Len(list) + 1)
      /\ more[Len(list) + 1] = e
      /\ \A i \in 1..Len(list) : more[i] = list[i]
  BY AppendProperties
<1> HIDE DEF more
<1>2. CASE e.code = c
  <2>1. e = [code |-> c, resolved |-> e.resolved]
    BY <1>2 DEF Entries
  <2>2. LastWord(more, c, r) => e.resolved = r
    <3> SUFFICES ASSUME LastWord(more, c, r)
                 PROVE  e.resolved = r
      OBVIOUS
    <3>1. PICK i \in DOMAIN more : /\ more[i] = [code |-> c, resolved |-> r]
                                   /\ \A j \in DOMAIN more : j > i => more[j].code # c
      BY DEF LastWord
    <3>2. i = Len(list) + 1
      BY <3>1, <1>1, <1>2
    <3> QED
      BY <3>1, <3>2, <1>1
  <2>3. e.resolved = r => LastWord(more, c, r)
    BY <2>1, <1>1 DEF LastWord
  <2> QED
    BY <1>2, <2>2, <2>3 DEF more
<1>3. CASE e.code # c
  <2>1. LastWord(more, c, r) => LastWord(list, c, r)
    BY <1>1, <1>3 DEF LastWord
  <2>2. LastWord(list, c, r) => LastWord(more, c, r)
    BY <1>1, <1>3 DEF LastWord
  <2> QED
    BY <1>3, <2>1, <2>2 DEF more
<1> QED
  BY <1>2, <1>3

LEMMA AppendedOccurred ==
  ASSUME NEW list \in Seq(Entries), NEW e \in Entries, NEW c \in Codes
  PROVE  Occurred(Append(list, e), c) <=>
           IF e.code = c THEN e.resolved = 1 /\ (Mentions(list, c) => Occurred(list, c))
                         ELSE Occurred(list, c)
<1> DEFINE more == Append(list, e)
<1>1. /\ DOMAIN list = 1..Len(list) /\ DOMAIN more = 1..(Len(list) + 1)
      /\ more[Len(list) + 1] = e
      /\ \A i \in 1..Len(list) : more[i] = list[i]
  BY AppendProperties
<1> HIDE DEF more
<1>2. CASE e.code = c
  BY <1>1, <1>2 DEF Occurred, Mentions, more
<1>3. CASE e.code # c
  BY <1>1, <1>3 DEF Occurred, Mentions, more
<1> QED
  BY <1>2, <1>3

(* Without an entry there is no last word.                                 *)
LEMMA NotMentioned ==
  ASSUME NEW list, NEW c, ~Mentions(list, c), NEW r
  PROVE  ~LastWord(list, c, r)
BY DEF LastWord, Mentions
-----------------------------------------------------------------------------
LEMMA ErrorInit == Init => ErrorInv
<1> SUFFICES ASSUME Init
             PROVE  ErrorInv
  OBVIOUS
<1>1. errorList = <<>> /\ active = {} /\ known = {} /\ early = {} /\ lost = {}
  BY DEF Init, RelayInit
<1>2. DOMAIN errorList = {}
  BY <1>1
<1>3. \A c : ~Mentions(errorList, c)
  BY <1>2 DEF Mentions
<1> QED
  BY <1>1, <1>2, <1>3, NotMentioned
     DEF ErrorInv, ListTypes, WillAgree, NewToTheSoC, DeafKnowsNothing, Heard, Occurred

(* The invariant is about the error list and the SoC only.                 *)
LEMMA ErrorsUntouched ==
  ASSUME ErrorInv, UNCHANGED errorVars, listening' = listening \/ listening'
  PROVE  ErrorInv'
<1>1. Heard(errorList)' = Heard(errorList)
  BY DEF errorVars, Heard, LastWord
<1>2. \A c : Occurred(errorList, c)' <=> Occurred(errorList, c)
  BY DEF errorVars, Occurred, Mentions
<1> QED
  BY <1>1, <1>2 DEF ErrorInv, ListTypes, WillAgree, NewToTheSoC, DeafKnowsNothing, errorVars

(* A code that occurs is told after everything said of it before.          *)
LEMMA CodeOccurs ==
  ASSUME ErrorInv, NEW c \in Codes, c \notin active, ErrorListCallback(c)
  PROVE  ErrorInv'
<1> DEFINE e == [code |-> c, resolved |-> 1]
<1>1. /\ errorList' = Append(errorList, e) /\ active' = active \cup {c}
      /\ UNCHANGED <<known, lost, early, listening>>
  BY DEF ErrorListCallback, SetSocError
<1>2. e \in Entries /\ errorList \in Seq(Entries)
  BY DEF Entries, ErrorInv, ListTypes
<1>3. ListTypes'
  BY <1>1, <1>2, AppendProperties DEF ErrorInv, ListTypes
<1>4. ASSUME NEW d \in Codes, NEW r \in {1, 2}
      PROVE  LastWord(errorList', d, r) <=> IF d = c THEN r = 1 ELSE LastWord(errorList, d, r)
  BY <1>1, <1>2, Appended
<1>5. ASSUME NEW d \in Codes
      PROVE  Occurred(errorList', d) <=>
               IF d = c THEN Mentions(errorList, c) => Occurred(errorList, c)
                        ELSE Occurred(errorList, d)
  BY <1>1, <1>2, AppendedOccurred
<1>6. WillAgree'
  <2> SUFFICES ASSUME NEW d \in Codes, d \notin lost
               PROVE  d \in Heard(errorList)' <=> d \in active'
    BY <1>1 DEF WillAgree
  <2>1. d \in Heard(errorList)' <=>
          LastWord(errorList', d, 1) \/ (d \in known /\ ~LastWord(errorList', d, 2))
    BY <1>1 DEF Heard, LastWord
  <2>2. d \in Heard(errorList) <=> d \in active
    BY DEF ErrorInv, WillAgree
  <2> QED
    BY <1>1, <1>4, <2>1, <2>2 DEF Heard
<1>7. NewToTheSoC'
  <2> SUFFICES ASSUME NEW d \in Codes, d \notin lost, d \notin early, Occurred(errorList', d)
               PROVE  d \notin known
    BY <1>1 DEF NewToTheSoC, Occurred, Mentions
  <2>1. CASE d = c /\ ~Mentions(errorList, c)
    <3>1. c \notin Heard(errorList)
      BY <2>1 DEF ErrorInv, WillAgree
    <3> QED
      BY <2>1, <3>1, NotMentioned DEF Heard
  <2>2. CASE ~(d = c /\ ~Mentions(errorList, c))
    <3>1. Occurred(errorList, d)
      BY <1>5, <2>2
    <3> QED
      BY <3>1 DEF ErrorInv, NewToTheSoC
  <2> QED
    BY <2>1, <2>2
<1> QED
  BY <1>1, <1>3, <1>6, <1>7 DEF ErrorInv, DeafKnowsNothing

(* A release that finds no entry of its code is told.                      *)
LEMMA CodeReleased ==
  ASSUME ErrorInv, NEW c \in Codes, c \in active, EntriesOf(c) = {}, ErrorListCallback(c)
  PROVE  ErrorInv'
<1> DEFINE e == [code |-> c, resolved |-> 2]
<1>1. /\ errorList' = Append(errorList, e) /\ active' = active \ {c} /\ early' = early \ {c}
      /\ UNCHANGED <<known, lost, listening>>
  BY DEF ErrorListCallback, SetSocError
<1>2. e \in Entries /\ errorList \in Seq(Entries)
  BY DEF Entries, ErrorInv, ListTypes
<1>3. ListTypes'
  BY <1>1, <1>2, AppendProperties DEF ErrorInv, ListTypes
<1>4. ASSUME NEW d \in Codes, NEW r \in {1, 2}
      PROVE  LastWord(errorList', d, r) <=> IF d = c THEN r = 2 ELSE LastWord(errorList, d, r)
  BY <1>1, <1>2, Appended
<1>5. ASSUME NEW d \in Codes
      PROVE  Occurred(errorList', d) <=> d # c /\ Occurred(errorList, d)
  BY <1>1, <1>2, AppendedOccurred
<1>6. WillAgree'
  <2> SUFFICES ASSUME NEW d \in Codes, d \notin lost
               PROVE  d \in Heard(errorList)' <=> d \in active'
    BY <1>1 DEF WillAgree
  <2>1. d \in Heard(errorList)' <=>
          LastWord(errorList', d, 1) \/ (d \in known /\ ~LastWord(errorList', d, 2))
    BY <1>1 DEF Heard, LastWord
  <2>2. d \in Heard(errorList) <=> d \in active
    BY DEF ErrorInv, WillAgree
  <2> QED
    BY <1>1, <1>4, <2>1, <2>2 DEF Heard
<1>7. NewToTheSoC'
  <2> SUFFICES ASSUME NEW d \in Codes, d \notin lost, d \notin early', Occurred(errorList', d)
               PROVE  d \notin known
    BY <1>1 DEF NewToTheSoC, Occurred, Mentions
  <2>1. d # c /\ Occurred(errorList, d)
    BY <1>5
  <2> QED
    BY <1>1, <2>1 DEF ErrorInv, NewToTheSoC
<1> QED
  BY <1>1, <1>3, <1>6, <1>7 DEF ErrorInv, DeafKnowsNothing

(* A release that erases an entry: either the code is lost, or the entry   *)
(* was all that was to be said of it and the SoC takes it for absent.      *)
LEMMA EntryErased ==
  ASSUME ErrorInv, NEW c \in Codes, c \in active, EntriesOf(c) # {}, ErrorListCallback(c)
  PROVE  ErrorInv'
<1> DEFINE n == FirstOf(c)
           rest == RemoveAt(errorList, n)
<1>1. /\ errorList' = rest /\ active' = active \ {c} /\ early' = early \ {c}
      /\ lost' = IF TakenBack(c) THEN lost ELSE lost \cup {c}
      /\ UNCHANGED <<known, listening>>
  BY DEF ErrorListCallback, SetSocError
<1>2. errorList \in Seq(Entries) /\ DOMAIN errorList = 1..Len(errorList)
  BY DEF ErrorInv, ListTypes
<1>3. n \in EntriesOf(c) /\ n \in 1..Len(errorList) /\ errorList[n].code = c
  <2>1. EntriesOf(c) \subseteq Nat
    BY <1>2 DEF EntriesOf
  <2>2. PICK i \in EntriesOf(c) : \A j \in EntriesOf(c) : ~(<<j, i>> \in OpToRel(<, Nat))
    BY <2>1, NatLessThanWellFounded, WFMin
  <2>3. ASSUME NEW j \in EntriesOf(c)
        PROVE  i <= j
    <3>1. j \in Nat /\ i \in Nat
      BY <2>1
    <3>2. ~(j < i)
      BY <2>2, <3>1 DEF OpToRel
    <3> QED
      BY <3>1, <3>2
  <2>4. n \in EntriesOf(c)
    BY <2>3 DEF FirstOf
  <2> QED
    BY <1>2, <2>4 DEF EntriesOf
<1>4. rest \in Seq(Entries)
  BY <1>2, <1>3, Removed
<1>5. ListTypes'
  BY <1>1, <1>4 DEF ErrorInv, ListTypes
<1> HIDE DEF n, rest
<1>6. ASSUME NEW d \in Codes, d # c
      PROVE  /\ \A r \in {1, 2} : LastWord(rest, d, r) <=> LastWord(errorList, d, r)
             /\ Occurred(rest, d) <=> Occurred(errorList, d)
  BY <1>2, <1>3, <1>6, RemovedOthers DEF rest
<1>7. ASSUME TakenBack(c)
      PROVE  ~Mentions(rest, c) /\ Occurred(errorList, c)
  <2>1. \A i \in 1..Len(errorList) : errorList[i].code = c => i = n /\ errorList[i].resolved = 1
    BY <1>2, <1>7 DEF TakenBack, EntriesOf, n
  <2>2. Occurred(errorList, c)
    BY <1>2, <1>3, <2>1 DEF Occurred, Mentions
  <2>3. ASSUME NEW i \in DOMAIN rest
        PROVE  rest[i].code # c
    <3>1. i \in 1..(Len(errorList) - 1)
      BY <1>2, <1>3, Removed DEF rest
    <3>2. rest[i] = IF i < n THEN errorList[i] ELSE errorList[i + 1]
      BY <1>2, <1>3, <3>1, Removed DEF rest
    <3> QED
      BY <1>3, <2>1, <3>1, <3>2
  <2> QED
    BY <2>2, <2>3 DEF Mentions
<1>8. WillAgree'
  <2> SUFFICES ASSUME NEW d \in Codes, d \notin lost'
               PROVE  d \in Heard(errorList)' <=> d \in active'
    BY DEF WillAgree
  <2>1. d \in Heard(errorList)' <=>
          LastWord(rest, d, 1) \/ (d \in known /\ ~LastWord(rest, d, 2))
    BY <1>1 DEF Heard, LastWord
  <2>2. d \in Heard(errorList) <=> d \in active
    BY <1>1 DEF ErrorInv, WillAgree
  <2>3. CASE d = c
    <3>1. TakenBack(c) /\ c \notin lost /\ c \notin early
      BY <1>1, <2>3 DEF TakenBack
    <3>2. c \notin known
      BY <1>7, <3>1 DEF ErrorInv, NewToTheSoC
    <3> QED
      BY <1>1, <1>7, <2>1, <2>3, <3>1, <3>2, NotMentioned
  <2>4. CASE d # c
    BY <1>1, <1>6, <2>1, <2>2, <2>4 DEF Heard
  <2> QED
    BY <2>3, <2>4
<1>9. NewToTheSoC'
  <2> SUFFICES ASSUME NEW d \in Codes, d \notin lost', d \notin early', Occurred(rest, d)
               PROVE  d \notin known
    BY <1>1 DEF NewToTheSoC, Occurred, Mentions
  <2>1. d # c
    BY <1>1, <1>7 DEF Occurred
  <2> QED
    BY <1>1, <1>6, <2>1 DEF ErrorInv, NewToTheSoC
<1> QED
  BY <1>1, <1>5, <1>8, <1>9 DEF ErrorInv, DeafKnowsNothing
-----------------------------------------------------------------------------
(* A pass that sends the list.  An SoC that listens takes over what it     *)
(* says; a list that is cleared unheard costs its codes the agreement.     *)
LEMMA ListSent ==
  ASSUME ErrorInv, ResSocErrorList, UNCHANGED listening
  PROVE  ErrorInv'
<1> DEFINE codes == {e.code : e \in Range(errorList)}
<1>1. /\ known' = IF listening THEN Heard(errorList) ELSE known
      /\ errorList' = IF comm THEN <<>> ELSE errorList
      /\ early' = IF listening /\ ~comm THEN codes ELSE {}
      /\ lost' = IF listening THEN lost \ {c \in codes : c \in known' <=> c \in active}
                 ELSE IF comm THEN lost \cup codes
                 ELSE lost
      /\ UNCHANGED <<active, listening>>
  BY DEF ResSocErrorList, KeptErrors
<1>2. \A c \in Codes : c \in codes <=> Mentions(errorList, c)
  BY DEF Mentions, Range
<1>3. codes \subseteq Codes
  <2>1. \A i \in DOMAIN errorList : errorList[i] \in Entries
    BY DEF ErrorInv, ListTypes
  <2>2. \A i \in DOMAIN errorList : errorList[i].code \in Codes
    BY <2>1 DEF Entries
  <2> QED
    BY <2>2 DEF Range
<1> HIDE DEF codes
<1>4. ListTypes'
  BY <1>1, <1>3, EmptySeq DEF ErrorInv, ListTypes, Heard
<1>5. Heard(errorList)' = known' \/ (~listening /\ ~comm)
  <2>1. CASE comm
    <3>1. \A c, r : ~LastWord(errorList', c, r)
      BY <1>1, <2>1 DEF LastWord
    <3> QED
      BY <1>4, <3>1 DEF Heard, LastWord, ListTypes
  <2>2. CASE listening /\ ~comm
    <3>1. errorList' = errorList /\ known' = Heard(errorList)
      BY <1>1, <2>2
    <3> QED
      BY <3>1 DEF Heard, LastWord
  <2> QED
    BY <2>1, <2>2
<1>6. WillAgree'
  <2> SUFFICES ASSUME NEW c \in Codes, c \notin lost'
               PROVE  c \in Heard(errorList)' <=> c \in active
    BY <1>1 DEF WillAgree
  <2>1. c \notin lost => (c \in Heard(errorList) <=> c \in active)
    BY DEF ErrorInv, WillAgree
  <2>2. CASE listening
    BY <1>1, <1>5, <2>1, <2>2
  <2>3. CASE ~listening /\ comm
    <3>1. c \notin lost /\ ~Mentions(errorList, c)
      BY <1>1, <1>2, <2>3
    <3>2. c \in Heard(errorList) <=> c \in known
      BY <3>1, NotMentioned DEF Heard
    <3> QED
      BY <1>1, <1>5, <2>1, <2>3, <3>1, <3>2
  <2>4. CASE ~listening /\ ~comm
    <3>1. c \in Heard(errorList)' <=> c \in Heard(errorList)
      BY <1>1, <2>4 DEF Heard, LastWord
    <3> QED
      BY <1>1, <2>1, <2>4, <3>1
  <2> QED
    BY <2>2, <2>3, <2>4
<1>7. NewToTheSoC'
  <2> SUFFICES ASSUME NEW c \in Codes, c \notin early', Occurred(errorList', c)
               PROVE  c \notin known'
    BY DEF NewToTheSoC, Occurred, Mentions
  <2>1. ~comm
    BY <1>1 DEF Occurred, Mentions
  <2>2. ~listening
    BY <1>1, <1>2, <2>1 DEF Occurred
  <2> QED
    BY <1>1, <2>2 DEF ErrorInv, DeafKnowsNothing
<1> QED
  BY <1>1, <1>4, <1>6, <1>7 DEF ErrorInv, DeafKnowsNothing

LEMMA ErrorStep == ErrorInv /\ [Next]_vars => ErrorInv'
<1> SUFFICES ASSUME ErrorInv, [Next]_vars
             PROVE  ErrorInv'
  OBVIOUS
<1>1. CASE Callback
  <2>1. ASSUME NEW c \in Codes, ErrorListCallback(c)
        PROVE  ErrorInv'
    BY <2>1, CodeOccurs, CodeReleased, EntryErased
  <2>2. CASE UNCHANGED <<errorVars, listening>>
    BY <2>2, ErrorsUntouched
  <2> QED
    BY <1>1, <2>1, <2>2
       DEF Callback, RobotStateCallback, MovingStateCallback, NodeStateCallback,
           StationDataCallback
<1>2. CASE SocComesUp
  BY <1>2, ErrorsUntouched DEF SocComesUp
<1>3. CASE ErrorList
  <2>1. UNCHANGED listening
    BY <1>3 DEF ErrorList
  <2>2. CASE ResSocErrorList
    BY <2>1, <2>2, ListSent
  <2>3. CASE UNCHANGED errorVars
    BY <2>1, <2>3, ErrorsUntouched
  <2> QED
    BY <1>3, <2>2, <2>3 DEF ErrorList
<1>4. CASE UdpCallback \/ Ask("ask", "docking") \/ DockingStatus \/ SendDockingStatus
  BY <1>4, ErrorsUntouched
     DEF UdpCallback, Ask, DockingStatus, SendDockingStatus, RelayUnchanged
<1>5. CASE MovingInfo \/ RobotState \/ MainState \/ MovingState
  BY <1>5, ErrorsUntouched DEF MovingInfo, RobotState, MainState, MovingState
<1>6. CASE AutoSend \/ NoAutoSend \/ Command
  BY <1>6, ErrorsUntouched DEF AutoSend, NoAutoSend, Command, RelayUnchanged
<1>7. CASE UNCHANGED vars
  BY <1>7, ErrorsUntouched DEF vars, relayVars
<1> QED
  BY <1>1, <1>2, <1>3, <1>4, <1>5, <1>6, <1>7 DEF Next, Pass

(* Once no entry is pending the SoC takes for present exactly the errors   *)
(* that are, but for the codes the property names: for any number of codes *)
(* and inputs, whenever the SoC comes up and the communication starts.     *)
THEOREM ErrorsAgreeHolds == Spec => []ErrorsAgree
<1>1. ErrorInv => ErrorsAgree
  <2> SUFFICES ASSUME ErrorInv, errorList = <<>>, NEW c \in Codes, c \notin lost
               PROVE  c \in known <=> c \in active
    BY DEF ErrorsAgree
  <2>1. c \in Heard(errorList) <=> c \in known
    BY DEF Heard, LastWord
  <2> QED
    BY <2>1 DEF ErrorInv, WillAgree
<1> QED
  BY <1>1, ErrorInit, ErrorStep, PTL DEF Spec
=============================================================================

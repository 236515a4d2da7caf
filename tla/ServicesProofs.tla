---------------------------- MODULE ServicesProofs ----------------------------
(***************************************************************************)
(* Proofs about the contacts, control rooms, VOEvents, the throttle and    *)
(* the submissions of Services, for any bounds.  Each component has its    *)
(* inductive invariant and the lemma that its steps keep it; those of a    *)
(* submission are in EventSubmissionProofs.                                *)
(***************************************************************************)
EXTENDS Services, FiniteSetTheorems, SequenceTheorems, TLAPS

-----------------------------------------------------------------------------
(* Contacts: the inductive invariant, and the steps that keep it.          *)

\* The bounds are numbers, and a row that is gone is no row.
SaneContact == MaxCodes \in Nat /\ MaxPosts \in Nat /\ Gone \notin Contact!Row

\* What a request has loaded: a page that sends a code has one on its instance.
Loaded ==
    \A p \in Pages :
        /\ step[p] \in {"generate", "send", "verify", "save"} =>
               inst[p] \in Contact!Row /\ inst[p].code \in (1 .. made) \cup {NoCode}
        /\ step[p] = "send" => inst[p].code \in 1 .. made

\* Wherever a contact is verified, on its row, on an instance, or by what a request is about
\* to do, a valid code has been entered.
EarnedBefore ==
    /\ row # Gone /\ row.verified => earned
    /\ names # {} => earned
    /\ \A p \in Pages :
           /\ step[p] \in {"verify", "m2m"} => earned
           /\ step[p] = "save" /\ inst[p].verified => earned
    /\ row = Gone => names = {}

\* Requests that come one after the other find the contact as they loaded it.
PagesInTurn ==
    calm =>
        /\ \A p, q \in Pages : step[p] # "idle" /\ step[q] # "idle" => p = q
        /\ \A p \in Pages :
               /\ step[p] # "idle" => row # Gone
               /\ step[p] = "save" /\ row.verified => inst[p].verified
               /\ step[p] = "m2m" => row.verified
        /\ names # {} => row.verified

ContactInv == Contact!TypeOK /\ Loaded /\ EarnedBefore /\ PagesInTurn

LEMMA ContactInit == ASSUME SaneContact PROVE Contact!Init => ContactInv
<1> SUFFICES ASSUME SaneContact, Contact!Init PROVE ContactInv
    OBVIOUS
<1>1. Contact!TypeOK
    <2>1. made \in 0 .. MaxCodes /\ requests \in 0 .. MaxPosts
        BY DEF SaneContact, Contact!Init
    <2>2. earned \in BOOLEAN /\ calm \in BOOLEAN
        BY DEF Contact!Init
    <2> QED BY <2>1, <2>2 DEF Contact!Init, Contact!TypeOK
<1>2. Loaded
    BY DEF Contact!Init, Loaded
<1>3. EarnedBefore
    BY DEF Contact!Init, EarnedBefore
<1>4. PagesInTurn
    BY DEF Contact!Init, PagesInTurn
<1> QED BY <1>1, <1>2, <1>3, <1>4 DEF ContactInv

\* A request that begins.
LEMMA LoadKeeps ==
    ASSUME SaneContact, ContactInv, NEW p \in Pages,
           NEW next \in {"generate", "verify", "save", "delete", "m2m"}, Contact!Load(p, next),
           next = "verify" => earned', next = "m2m" => row.verified,
           earned' \in {earned, TRUE}, notif' \in [Pages -> Notifications]
    PROVE  ContactInv'
<1>1. /\ step[p] = "idle" /\ row # Gone /\ requests < MaxPosts /\ requests' = requests + 1
      /\ step' = [step EXCEPT ![p] = next] /\ inst' = [inst EXCEPT ![p] = row]
      /\ calm' = (calm /\ \A q \in Pages : step[q] = "idle")
      /\ UNCHANGED <<row, valid, made, inbox, names>>
    BY DEF Contact!Load
<1>2. row \in Contact!Row /\ row.code \in (1 .. made) \cup {NoCode}
    BY <1>1 DEF ContactInv, Contact!TypeOK
<1>3. /\ step'[p] = next /\ inst'[p] = row
      /\ \A q \in Pages \ {p} : step'[q] = step[q] /\ inst'[q] = inst[q]
    BY <1>1 DEF ContactInv, Contact!TypeOK
<1>4. Contact!TypeOK'
    <2>1. requests' \in 0 .. MaxPosts
        BY <1>1 DEF ContactInv, Contact!TypeOK, SaneContact
    <2>2. /\ step' \in [Pages -> {"idle", "generate", "send", "verify", "save", "delete", "m2m"}]
          /\ inst' \in [Pages -> Contact!Row \cup {Gone}]
        BY <1>1, <1>2 DEF ContactInv, Contact!TypeOK
    <2>3. \A q \in Pages : step'[q] \in {"verify", "save"} => inst'[q] # Gone
        BY <1>1, <1>3 DEF ContactInv, Contact!TypeOK
    <2>4. earned' \in BOOLEAN /\ calm' \in BOOLEAN
        BY <1>1 DEF ContactInv, Contact!TypeOK
    <2> QED BY <1>1, <2>1, <2>2, <2>3, <2>4 DEF ContactInv, Contact!TypeOK
<1>5. Loaded'
    BY <1>1, <1>2, <1>3 DEF ContactInv, Loaded
<1>6. EarnedBefore'
    <2>1. earned => earned'
        BY DEF ContactInv, Contact!TypeOK
    <2>2. next = "m2m" => earned
        BY <1>1 DEF ContactInv, EarnedBefore
    <2>3. next = "save" /\ row.verified => earned
        BY <1>1 DEF ContactInv, EarnedBefore
    <2> QED BY <1>1, <1>3, <2>1, <2>2, <2>3 DEF ContactInv, EarnedBefore
<1>7. PagesInTurn'
    <2> SUFFICES ASSUME calm, \A q \in Pages : step[q] = "idle" PROVE PagesInTurn'
        BY <1>1 DEF PagesInTurn
    <2> QED BY <1>1, <1>3 DEF ContactInv, PagesInTurn
<1> QED BY <1>4, <1>5, <1>6, <1>7 DEF ContactInv

\* A page that goes on, or comes to its end, and leaves the history as it is.
LEMMA PageKeepsTypes ==
    ASSUME ContactInv, NEW p \in Pages,
           NEW next \in {"idle", "send", "save"}, Contact!Goto(p, next),
           UNCHANGED <<requests, earned, calm, notif>>,
           made' \in 0 .. MaxCodes, valid' \subseteq 1 .. made', inbox' \subseteq 1 .. made',
           row' \in Contact!Row \cup {Gone},
           row' # Gone => row'.code \in (1 .. made') \cup {NoCode},
           inst' \in [Pages -> Contact!Row \cup {Gone}], next = "save" => inst'[p] # Gone,
           \A q \in Pages \ {p} : inst'[q] = inst[q],
           names' \subseteq Notifications
    PROVE  /\ Contact!TypeOK' /\ step'[p] = next
           /\ \A q \in Pages \ {p} : step'[q] = step[q]
<1>1. step' = [step EXCEPT ![p] = next] /\ p \in DOMAIN step
    BY DEF Contact!Goto, ContactInv, Contact!TypeOK
<1>2. step'[p] = next /\ \A q \in Pages \ {p} : step'[q] = step[q]
    BY <1>1 DEF ContactInv, Contact!TypeOK
<1>3. step' \in [Pages -> {"idle", "generate", "send", "verify", "save", "delete", "m2m"}]
    BY <1>1 DEF ContactInv, Contact!TypeOK
<1>4. \A q \in Pages : step'[q] \in {"verify", "save"} => inst'[q] # Gone
    BY <1>2 DEF ContactInv, Contact!TypeOK
<1> QED BY <1>2, <1>3, <1>4 DEF ContactInv, Contact!TypeOK

LEMMA CreateKeeps == ASSUME SaneContact, ContactInv, Contact!Create PROVE ContactInv'
<1>1. /\ row = Gone /\ requests < MaxPosts /\ \A p \in Pages : step[p] = "idle"
      /\ requests' = requests + 1 /\ earned' = FALSE
      /\ row' = [verified |-> FALSE, code |-> NoCode]
      /\ UNCHANGED <<valid, made, inbox, names, step, inst, notif, calm>>
    BY DEF Contact!Create
<1>2. row' \in Contact!Row /\ row'.code = NoCode /\ ~ row'.verified
    BY <1>1 DEF Contact!Row
<1>3. names = {}
    BY <1>1 DEF ContactInv, EarnedBefore
<1>4. Contact!TypeOK'
    <2>1. requests' \in 0 .. MaxPosts
        BY <1>1 DEF ContactInv, Contact!TypeOK, SaneContact
    <2>2. earned' \in BOOLEAN /\ calm' \in BOOLEAN
        BY <1>1 DEF ContactInv, Contact!TypeOK
    <2> QED BY <1>1, <1>2, <2>1, <2>2 DEF ContactInv, Contact!TypeOK
<1>5. Loaded'
    BY <1>1 DEF Loaded
<1>6. EarnedBefore'
    BY <1>1, <1>2, <1>3 DEF EarnedBefore
<1>7. PagesInTurn'
    BY <1>1, <1>3 DEF PagesInTurn
<1> QED BY <1>4, <1>5, <1>6, <1>7 DEF ContactInv

LEMMA GenerateKeeps ==
    ASSUME SaneContact, ContactInv, NEW p \in Pages, Contact!Generate(p)
    PROVE ContactInv'
<1>1. /\ step[p] = "generate" /\ made < MaxCodes
      /\ UNCHANGED <<inbox, names, notif, requests, earned, calm>>
      /\ inst[p] \in Contact!Row
    BY DEF Contact!Generate, ContactInv, Loaded
<1>2. CASE row = Gone
    <2>1. /\ UNCHANGED <<row, made, valid, inst>> /\ Contact!Goto(p, "idle")
        BY <1>2 DEF Contact!Generate, ContactInv, Contact!TypeOK
    <2>2. /\ Contact!TypeOK' /\ step'[p] = "idle"
          /\ \A q \in Pages \ {p} : step'[q] = step[q]
        BY <1>1, <2>1, PageKeepsTypes DEF ContactInv, Contact!TypeOK
    <2>3. Loaded'
        BY <2>1, <2>2 DEF ContactInv, Loaded
    <2>4. EarnedBefore'
        BY <1>1, <2>1, <2>2 DEF ContactInv, EarnedBefore
    <2>5. PagesInTurn'
        BY <1>1, <2>1, <2>2 DEF ContactInv, PagesInTurn
    <2> QED BY <2>2, <2>3, <2>4, <2>5 DEF ContactInv
<1>3. CASE row # Gone
    <2>1. /\ made' = made + 1 /\ row' = [row EXCEPT !.code = made']
          /\ valid' = valid \cup {made'} /\ Contact!Goto(p, "send")
          /\ inst' = [inst EXCEPT ![p] = [@ EXCEPT !.code = made']]
        BY <1>3 DEF Contact!Generate
    <2>2. made' \in 0 .. MaxCodes /\ made' \in 1 .. made' /\ 1 .. made \subseteq 1 .. made'
        BY <1>1, <2>1 DEF ContactInv, Contact!TypeOK, SaneContact
    <2>3. made' \in Contact!Codes
        BY <2>2 DEF Contact!Codes, SaneContact
    <2>4. row' \in Contact!Row /\ row'.code = made' /\ row'.verified = row.verified
        BY <1>3, <2>1, <2>3 DEF ContactInv, Contact!TypeOK, Contact!Row
    <2>5. /\ inst'[p] = [inst[p] EXCEPT !.code = made']
          /\ \A q \in Pages \ {p} : inst'[q] = inst[q]
        BY <2>1 DEF ContactInv, Contact!TypeOK
    <2>6. inst'[p] \in Contact!Row /\ inst'[p].code = made'
        BY <1>1, <2>3, <2>5 DEF Contact!Row
    <2>7. inst' \in [Pages -> Contact!Row \cup {Gone}]
        BY <2>1, <2>5, <2>6 DEF ContactInv, Contact!TypeOK
    <2>8. /\ valid' \subseteq 1 .. made' /\ inbox' \subseteq 1 .. made'
          /\ names' \subseteq Notifications
        BY <1>1, <2>1, <2>2 DEF ContactInv, Contact!TypeOK
    <2>9. /\ Contact!TypeOK' /\ step'[p] = "send"
          /\ \A q \in Pages \ {p} : step'[q] = step[q]
        BY <1>1, <2>1, <2>2, <2>4, <2>5, <2>7, <2>8, PageKeepsTypes
    <2>10. Loaded'
        BY <2>2, <2>5, <2>6, <2>9 DEF ContactInv, Loaded
    <2>11. row' # Gone
        BY <2>4 DEF SaneContact
    <2>12. EarnedBefore'
        BY <1>1, <1>3, <2>4, <2>5, <2>9, <2>11 DEF ContactInv, EarnedBefore
    <2>13. PagesInTurn'
        BY <1>1, <2>4, <2>5, <2>9, <2>11 DEF ContactInv, PagesInTurn
    <2> QED BY <2>9, <2>10, <2>12, <2>13 DEF ContactInv
<1> QED BY <1>2, <1>3

LEMMA SendKeeps ==
    ASSUME SaneContact, ContactInv, NEW p \in Pages, Contact!Send(p)
    PROVE ContactInv'
<1>1. /\ step[p] = "send" /\ inbox' \in {inbox, inbox \cup {inst[p].code}}
      /\ Contact!Goto(p, "idle")
      /\ UNCHANGED <<row, valid, made, names, inst, notif, requests, earned, calm>>
    BY DEF Contact!Send
<1>2. inbox' \subseteq 1 .. made'
    BY <1>1 DEF ContactInv, Contact!TypeOK, Loaded
<1>3. /\ Contact!TypeOK' /\ step'[p] = "idle"
      /\ \A q \in Pages \ {p} : step'[q] = step[q]
    BY <1>1, <1>2, PageKeepsTypes DEF ContactInv, Contact!TypeOK
<1>4. Loaded'
    BY <1>1, <1>3 DEF ContactInv, Loaded
<1>5. EarnedBefore'
    BY <1>1, <1>3 DEF ContactInv, EarnedBefore
<1>6. PagesInTurn'
    BY <1>1, <1>3 DEF ContactInv, PagesInTurn
<1> QED BY <1>3, <1>4, <1>5, <1>6 DEF ContactInv

LEMMA VerifyKeeps ==
    ASSUME SaneContact, ContactInv, NEW p \in Pages, Contact!Verify(p)
    PROVE ContactInv'
<1>1. /\ step[p] = "verify" /\ inst' = [inst EXCEPT ![p].verified = TRUE]
      /\ UNCHANGED <<valid, made, inbox, names, notif, requests, earned, calm>>
      /\ inst[p] \in Contact!Row /\ inst[p].code \in (1 .. made) \cup {NoCode} /\ earned
    BY DEF Contact!Verify, ContactInv, Loaded, EarnedBefore
<1>2. /\ inst'[p] \in Contact!Row /\ inst'[p].verified /\ inst'[p].code = inst[p].code
      /\ \A q \in Pages \ {p} : inst'[q] = inst[q]
      /\ inst' \in [Pages -> Contact!Row \cup {Gone}]
    <2>1. inst'[p] = [inst[p] EXCEPT !.verified = TRUE]
        BY <1>1 DEF ContactInv, Contact!TypeOK
    <2>2. inst'[p] \in Contact!Row /\ inst'[p].verified /\ inst'[p].code = inst[p].code
        BY <1>1, <2>1 DEF Contact!Row
    <2>3. \A q \in Pages \ {p} : inst'[q] = inst[q]
        BY <1>1 DEF ContactInv, Contact!TypeOK
    <2>4. inst' \in [Pages -> Contact!Row \cup {Gone}]
        BY <1>1, <2>2, <2>3 DEF ContactInv, Contact!TypeOK
    <2> QED BY <2>2, <2>3, <2>4
<1>3. PICK next \in {"idle", "save"} :
         /\ Contact!Goto(p, next)
         /\ next = "idle" => row = Gone /\ row' = Gone
         /\ next = "save" => row # Gone /\ row' = [row EXCEPT !.verified = TRUE]
    BY DEF Contact!Verify
<1>4. row # Gone => /\ row' \in Contact!Row /\ row' # Gone /\ row'.verified
                    /\ row'.code \in (1 .. made) \cup {NoCode}
    <2> SUFFICES ASSUME row # Gone PROVE /\ row' \in Contact!Row /\ row'.verified
                                         /\ row'.code \in (1 .. made) \cup {NoCode}
        BY DEF SaneContact
    <2>1. row \in Contact!Row /\ row.code \in (1 .. made) \cup {NoCode}
        BY DEF ContactInv, Contact!TypeOK
    <2>2. row' = [row EXCEPT !.verified = TRUE]
        BY <1>3
    <2> QED BY <2>1, <2>2 DEF Contact!Row
<1>5. row = Gone => row' = Gone
    BY <1>3
<1>6. /\ Contact!TypeOK' /\ step'[p] = next
      /\ \A q \in Pages \ {p} : step'[q] = step[q]
    <2>1. inst'[p] # Gone
        BY <1>2 DEF SaneContact
    <2>2. /\ row' \in Contact!Row \cup {Gone}
          /\ row' # Gone => row'.code \in (1 .. made') \cup {NoCode}
        BY <1>1, <1>4, <1>5
    <2>3. /\ made' \in 0 .. MaxCodes /\ valid' \subseteq 1 .. made' /\ inbox' \subseteq 1 .. made'
          /\ names' \subseteq Notifications
        BY <1>1 DEF ContactInv, Contact!TypeOK
    <2> QED BY <1>1, <1>2, <1>3, <2>1, <2>2, <2>3, PageKeepsTypes
<1>7. Loaded'
    BY <1>1, <1>2, <1>6 DEF ContactInv, Loaded
<1>8. EarnedBefore'
    BY <1>1, <1>2, <1>4, <1>6 DEF ContactInv, EarnedBefore
<1>9. PagesInTurn'
    BY <1>1, <1>2, <1>3, <1>4, <1>6 DEF ContactInv, PagesInTurn
<1> QED BY <1>6, <1>7, <1>8, <1>9 DEF ContactInv

LEMMA SaveKeeps ==
    ASSUME SaneContact, ContactInv, NEW p \in Pages, Contact!Save(p)
    PROVE ContactInv'
<1>1. /\ step[p] = "save" /\ row' = inst[p] /\ Contact!Goto(p, "idle")
      /\ UNCHANGED <<valid, made, inbox, names, inst, notif, requests, earned, calm>>
    BY DEF Contact!Save
<1>2. inst[p] \in Contact!Row /\ inst[p] # Gone /\ inst[p].code \in (1 .. made) \cup {NoCode}
    BY <1>1 DEF ContactInv, Loaded, SaneContact
<1>3. /\ Contact!TypeOK' /\ step'[p] = "idle"
      /\ \A q \in Pages \ {p} : step'[q] = step[q]
    BY <1>1, <1>2, PageKeepsTypes DEF ContactInv, Contact!TypeOK
<1>4. Loaded'
    BY <1>1, <1>3 DEF ContactInv, Loaded
<1>5. EarnedBefore'
    BY <1>1, <1>2, <1>3 DEF ContactInv, EarnedBefore
<1>6. PagesInTurn'
    BY <1>1, <1>2, <1>3 DEF ContactInv, PagesInTurn
<1> QED BY <1>3, <1>4, <1>5, <1>6 DEF ContactInv

LEMMA DeleteKeeps ==
    ASSUME SaneContact, ContactInv, NEW p \in Pages, Contact!Delete(p)
    PROVE ContactInv'
<1>1. /\ step[p] = "delete" /\ row' = Gone /\ names' = {} /\ Contact!Goto(p, "idle")
      /\ UNCHANGED <<valid, made, inbox, inst, notif, requests, earned, calm>>
    BY DEF Contact!Delete
<1>2. /\ Contact!TypeOK' /\ step'[p] = "idle"
      /\ \A q \in Pages \ {p} : step'[q] = step[q]
    BY <1>1, PageKeepsTypes DEF ContactInv, Contact!TypeOK
<1>3. Loaded'
    BY <1>1, <1>2 DEF ContactInv, Loaded
<1>4. EarnedBefore'
    BY <1>1, <1>2 DEF ContactInv, EarnedBefore
<1>5. PagesInTurn'
    BY <1>1, <1>2 DEF ContactInv, PagesInTurn
<1> QED BY <1>2, <1>3, <1>4, <1>5 DEF ContactInv

LEMMA WriteContactsKeeps ==
    ASSUME SaneContact, ContactInv, NEW p \in Pages, Contact!WriteContacts(p)
    PROVE  ContactInv'
<1>1. /\ step[p] = "m2m" /\ names' = (IF row = Gone THEN names ELSE names \cup {notif[p]})
      /\ Contact!Goto(p, "idle")
      /\ UNCHANGED <<row, valid, made, inbox, inst, notif, requests, earned, calm>>
    BY DEF Contact!WriteContacts
<1>2. names' \subseteq Notifications
    BY <1>1 DEF ContactInv, Contact!TypeOK
<1>3. /\ Contact!TypeOK' /\ step'[p] = "idle"
      /\ \A q \in Pages \ {p} : step'[q] = step[q]
    BY <1>1, <1>2, PageKeepsTypes DEF ContactInv, Contact!TypeOK
<1>4. Loaded'
    BY <1>1, <1>3 DEF ContactInv, Loaded
<1>5. EarnedBefore'
    BY <1>1, <1>3 DEF ContactInv, EarnedBefore
<1>6. PagesInTurn'
    BY <1>1, <1>3 DEF ContactInv, PagesInTurn
<1> QED BY <1>3, <1>4, <1>5, <1>6 DEF ContactInv

LEMMA ContactStep == ASSUME SaneContact, ContactInv, [Contact!Next]_Contact!vars PROVE ContactInv'
<1>1. CASE Contact!Create
    BY <1>1, CreateKeeps
<1>2. CASE Contact!Expire
    BY <1>2 DEF Contact!Expire, ContactInv, Contact!TypeOK, Loaded, EarnedBefore, PagesInTurn
<1>3. CASE Contact!Unname
    BY <1>3 DEF Contact!Unname, ContactInv, Contact!TypeOK, Loaded, EarnedBefore, PagesInTurn
<1>4. ASSUME NEW p \in Pages, Contact!RequestCode(p) PROVE ContactInv'
    BY <1>4, LoadKeeps DEF Contact!RequestCode, ContactInv, Contact!TypeOK
<1>5. ASSUME NEW p \in Pages, Contact!EnterCode(p) PROVE ContactInv'
    <2>1. PICK code \in inbox : Contact!Accepts(row, code) /\ earned' = (earned \/ code = row.code)
        BY <1>5 DEF Contact!EnterCode
    <2>2. earned' = TRUE
        BY <2>1 DEF Contact!Accepts, Contact!RightCode
    <2> QED BY <1>5, <2>2, LoadKeeps DEF Contact!EnterCode, ContactInv, Contact!TypeOK
<1>6. ASSUME NEW p \in Pages, Contact!Edit(p) PROVE ContactInv'
    BY <1>6, LoadKeeps DEF Contact!Edit, ContactInv, Contact!TypeOK
<1>7. ASSUME NEW p \in Pages, Contact!StartDelete(p) PROVE ContactInv'
    BY <1>7, LoadKeeps DEF Contact!StartDelete, ContactInv, Contact!TypeOK
<1>8. ASSUME NEW p \in Pages, Contact!Name(p) PROVE ContactInv'
    <2>1. notif' \in [Pages -> Notifications] /\ row.verified
        BY <1>8 DEF Contact!Name, Contact!Offered, ContactInv, Contact!TypeOK
    <2> QED BY <1>8, <2>1, LoadKeeps DEF Contact!Name
<1>9. CASE UNCHANGED Contact!vars
    BY <1>9 DEF Contact!vars, ContactInv, Contact!TypeOK, Loaded, EarnedBefore, PagesInTurn
<1> QED BY <1>1, <1>2, <1>3, <1>4, <1>5, <1>6, <1>7, <1>8, <1>9, GenerateKeeps, SendKeeps,
           VerifyKeeps, SaveKeeps, DeleteKeeps, WriteContactsKeeps DEF Contact!Next

-----------------------------------------------------------------------------
(* Control rooms.                                                          *)

\* The bounds are numbers, and a request can come from somewhere else.
SaneRoom == MaxVisits \in Nat /\ MaxCuts \in Nat /\ Elsewhere \notin Rooms

\* Requests that come one after the other: only one is under way, and what it finds and
\* leaves is all there is.
AskingInTurn ==
    calm =>
        /\ \A q, r \in Requests : phase[q] # "idle" /\ phase[r] # "idle" => q = r
        /\ \A r \in Requests :
               /\ phase[r] = "view" => {at[r]} \cap Rooms \subseteq groups
               /\ phase[r] = "leave" => found[r] = groups
        /\ ~ cut =>
               /\ Room!Rest => groups = {}
               /\ \A r \in Requests :
                      /\ phase[r] = "request" => groups = {}
                      /\ phase[r] = "view" => groups \subseteq {at[r]}

\* However requests overlap, each group has one that will find it, or has found it.
SomeoneLeaves ==
    faults = 0 =>
        \A g \in groups : \E r \in Requests :
            phase[r] = "view" \/ (phase[r] = "leave" /\ g \in found[r])

RoomInv == Room!TypeOK /\ cut \in BOOLEAN /\ calm \in BOOLEAN /\ AskingInTurn /\ SomeoneLeaves

LEMMA RoomInit == ASSUME SaneRoom PROVE Room!Init => RoomInv
<1> SUFFICES ASSUME SaneRoom, Room!Init PROVE RoomInv
    OBVIOUS
<1>1. Room!TypeOK /\ cut \in BOOLEAN /\ calm \in BOOLEAN
    <2>1. made \in 0 .. MaxVisits /\ faults \in 0 .. MaxCuts
        BY DEF SaneRoom, Room!Init
    <2>2. cut \in BOOLEAN /\ calm \in BOOLEAN
        BY DEF Room!Init
    <2> QED BY <2>1, <2>2 DEF Room!Init, Room!TypeOK
<1>2. AskingInTurn
    BY DEF Room!Init, AskingInTurn
<1>3. SomeoneLeaves
    BY DEF Room!Init, SomeoneLeaves
<1> QED BY <1>1, <1>2, <1>3 DEF RoomInv

LEMMA ArriveKeeps ==
    ASSUME SaneRoom, RoomInv, NEW q \in Requests, Room!Arrive(q)
    PROVE  RoomInv'
<1> USE DEF RoomInv, Room!Arrive
<1>1. PICK place \in Rooms \cup {Elsewhere} : at' = [at EXCEPT ![q] = place]
    OBVIOUS
<1>2. /\ phase[q] = "idle" /\ phase' = [phase EXCEPT ![q] = "request"]
      /\ calm' = (calm /\ Room!Rest) /\ UNCHANGED <<groups, found, faults, cut>>
    OBVIOUS
<1>3. Room!TypeOK'
    BY <1>1 DEF Room!TypeOK, SaneRoom
<1>4. AskingInTurn'
    <2> SUFFICES ASSUME calm, Room!Rest, calm' PROVE AskingInTurn'
        BY <1>2 DEF AskingInTurn
    <2>1. \A r \in Requests : phase'[r] = IF r = q THEN "request" ELSE "idle"
        BY <1>2 DEF Room!Rest, Room!TypeOK
    <2>2. ~ cut' => groups' = {}
        BY <1>2 DEF AskingInTurn
    <2> QED BY <2>1, <2>2 DEF AskingInTurn
<1>5. SomeoneLeaves'
    BY <1>2 DEF SomeoneLeaves, Room!TypeOK
<1> QED BY <1>2, <1>3, <1>4, <1>5

LEMMA EnterKeeps ==
    ASSUME SaneRoom, RoomInv, NEW q \in Requests, Room!Enter(q)
    PROVE  RoomInv'
<1> USE DEF RoomInv, Room!Enter
<1>1. /\ phase[q] = "request" /\ phase' = [phase EXCEPT ![q] = "view"]
      /\ groups' = groups \cup ({at[q]} \cap Rooms)
      /\ UNCHANGED <<at, found, made, faults, cut, calm>>
    OBVIOUS
<1>2. Room!TypeOK'
    BY DEF Room!TypeOK
<1>3. AskingInTurn'
    <2> SUFFICES ASSUME calm
                 PROVE  /\ \A r \in Requests : phase'[r] = IF r = q THEN "view" ELSE "idle"
                        /\ ~ cut => groups = {}
        BY <1>1 DEF AskingInTurn, Room!Rest
    <2> QED BY <1>1 DEF AskingInTurn, Room!TypeOK
<1>4. SomeoneLeaves'
    BY <1>1 DEF SomeoneLeaves, Room!TypeOK
<1> QED BY <1>1, <1>2, <1>3, <1>4

LEMMA FindKeeps ==
    ASSUME SaneRoom, RoomInv, NEW q \in Requests, Room!Find(q)
    PROVE  RoomInv'
<1> USE DEF RoomInv, Room!Find
<1>1. /\ phase[q] = "view" /\ phase' = [phase EXCEPT ![q] = "leave"]
      /\ found' = [found EXCEPT ![q] = groups]
      /\ UNCHANGED <<groups, at, made, faults, cut, calm>>
    BY DEF Room!GroupsToLeave
<1>2. Room!TypeOK'
    BY <1>1 DEF Room!TypeOK
<1>3. AskingInTurn'
    <2> SUFFICES ASSUME calm
                 PROVE  /\ \A r \in Requests : phase'[r] = IF r = q THEN "leave" ELSE "idle"
                        /\ found'[q] = groups
        BY <1>1 DEF AskingInTurn, Room!Rest
    <2> QED BY <1>1 DEF AskingInTurn, Room!TypeOK
<1>4. SomeoneLeaves'
    BY <1>1 DEF SomeoneLeaves, Room!TypeOK
<1> QED BY <1>1, <1>2, <1>3, <1>4

LEMMA LeaveKeeps ==
    ASSUME SaneRoom, RoomInv, NEW q \in Requests, Room!Leave(q)
    PROVE  RoomInv'
<1> USE DEF RoomInv, Room!Leave
<1>1. /\ phase[q] = "leave" /\ phase' = [phase EXCEPT ![q] = "idle"]
      /\ groups' = groups \ found[q] /\ cut' = FALSE
      /\ UNCHANGED <<at, found, made, faults, calm>>
    OBVIOUS
<1>2. Room!TypeOK'
    BY <1>1 DEF Room!TypeOK
<1>3. AskingInTurn'
    <2> SUFFICES ASSUME calm
                 PROVE  /\ \A r \in Requests : phase'[r] = "idle"
                        /\ groups' = {}
        BY <1>1 DEF AskingInTurn, Room!Rest
    <2> QED BY <1>1 DEF AskingInTurn, Room!TypeOK
<1>4. SomeoneLeaves'
    BY <1>1 DEF SomeoneLeaves, Room!TypeOK
<1> QED BY <1>1, <1>2, <1>3, <1>4

LEMMA CutOffKeeps ==
    ASSUME SaneRoom, RoomInv, NEW q \in Requests, Room!CutOff(q)
    PROVE  RoomInv'
<1> USE DEF RoomInv, Room!CutOff
<1>1. /\ phase[q] # "idle" /\ phase' = [phase EXCEPT ![q] = "idle"]
      /\ cut' = TRUE /\ faults' = faults + 1 /\ faults < MaxCuts
      /\ UNCHANGED <<groups, at, found, made, calm>>
    OBVIOUS
<1>2. Room!TypeOK' /\ faults' # 0
    BY <1>1 DEF Room!TypeOK, SaneRoom
<1>3. AskingInTurn'
    <2> SUFFICES ASSUME calm
                 PROVE  \A r \in Requests : phase'[r] = "idle"
        BY <1>1 DEF AskingInTurn
    <2> QED BY <1>1 DEF AskingInTurn, Room!TypeOK
<1>4. SomeoneLeaves'
    BY <1>2 DEF SomeoneLeaves
<1> QED BY <1>1, <1>2, <1>3, <1>4

LEMMA RoomStep == ASSUME SaneRoom, RoomInv, [Room!Next]_Room!vars PROVE RoomInv'
<1>1. CASE UNCHANGED Room!vars
    BY <1>1 DEF Room!vars, RoomInv, Room!TypeOK, AskingInTurn, SomeoneLeaves, Room!Rest
<1> QED BY <1>1, ArriveKeeps, EnterKeeps, FindKeeps, LeaveKeeps, CutOffKeeps DEF Room!Next

-----------------------------------------------------------------------------
(* VOEvents.                                                               *)

\* What the model takes for granted: bounds are numbers, and None is neither a tag, a
\* request, nor a text.
SaneVOEvents == /\ MaxVOEvents \in Nat /\ MaxUntags \in Nat /\ MaxFailures \in Nat
                /\ None \notin Alerting!Tags /\ None \notin Alerting!Jobs
                /\ None \notin SUBSET Alerting!Citations

-----------------------------------------------------------------------------
(* The inductive invariant.                                                *)

\* Is the request of the worker one for a VOEvent?
Making(w) == jobs[w] # None /\ jobs[w].do \in Alerting!Steps

VOTypes ==
      /\ filled \subseteq Alerting!Ids /\ logged \subseteq Alerting!Ids /\ tagged \subseteq Alerting!Ids
      /\ announced \subseteq Alerting!Ids /\ excused \subseteq Alerting!Ids
      /\ past \in [Alerting!Ids -> SUBSET Alerting!Numbers]
      /\ jobs \in [Workers -> Alerting!Jobs \cup {None}]
      /\ \A id \in Alerting!Ids : texts[id] # None => Alerting!There(id)

\* What the request of a worker may rely on at each step.
InOrder(w) ==
    LET id == jobs[w].id
    IN  /\ Alerting!There(id)
        /\ jobs[w].do \notin {"build", "write"} => texts[id] # None
        /\ jobs[w].do \notin {"build", "write", "fill"} => id \in filled
        /\ jobs[w].do \in {"add tag", "alert"} => id \in logged
        /\ jobs[w].do = "get tag" /\ id[1] = "event" => id \in logged
        /\ jobs[w].do = "make tag" => id[1] = "event" /\ id \in logged

\* A text cites what had gone out, and so does one that is not written yet.
PastIsThere ==
    \A id \in Alerting!Ids : \A n \in past[id] :
        /\ <<id[1], n>> \in filled
        /\ n # id[2]

WillCite(w) == jobs[w].do = "write" =>
    \A n \in past[jobs[w].id] : [n |-> n, known |-> TRUE] \in jobs[w].text

\* A request holds the tag there is, or is excused; and for a superevent there is one.
TagInHand(w) ==
    LET id == jobs[w].id
    IN  /\ jobs[w].do = "add tag" \/ (jobs[w].do = "log" /\ id[1] = "superevent") =>
               /\ jobs[w].tag # None
               /\ jobs[w].tag = tag \/ id \in excused
        /\ id[1] = "superevent" /\ tag = None => id \in excused

JobInv(w) == Making(w) => InOrder(w) /\ WillCite(w) /\ TagInHand(w)

VOInv == /\ Alerting!TypeOK /\ VOTypes /\ PastIsThere /\ \A w \in Workers : JobInv(w)
         /\ Alerting!CitesTheirPast /\ Alerting!AnnouncedAreLogged /\ Alerting!VOEventsGoOut

-----------------------------------------------------------------------------
LEMMA JobTypes ==
    ASSUME NEW j \in Alerting!Jobs
    PROVE  /\ "id" \in DOMAIN j <=> j.do \in Alerting!Steps
           /\ j.do \in Alerting!Steps => /\ j \in [do : Alerting!Steps, id : Alerting!Ids, text : SUBSET Alerting!Citations,
                                                   tag : Alerting!Tags \cup {None}]
                                         /\ j.id \in Alerting!Ids
                                         /\ j.text \in SUBSET Alerting!Citations
                                         /\ j.tag \in Alerting!Tags \cup {None}
           /\ j.do \notin Alerting!Steps => j.do \in {"look", "delete"} /\ j.tag \in Alerting!Tags
BY DEF Alerting!Jobs, Alerting!Steps

LEMMA MakingIsInMaking ==
    ASSUME jobs \in [Workers -> Alerting!Jobs \cup {None}], None \notin Alerting!Jobs
    PROVE  Alerting!InMaking = {jobs[w].id : w \in {v \in Workers : Making(v)}}
<1>1. ASSUME NEW v \in Workers
      PROVE  (jobs[v] # None /\ "id" \in DOMAIN jobs[v]) <=> Making(v)
    BY JobTypes DEF Making
<1> QED BY <1>1 DEF Alerting!InMaking

LEMMA IdTypes ==
    ASSUME NEW id \in Alerting!Ids
    PROVE  /\ id[1] \in Alerting!Owners /\ id[2] \in Alerting!Numbers /\ id = <<id[1], id[2]>>
           /\ id[1] \in {"event", "superevent"}
BY DEF Alerting!Ids, Alerting!Owners

LEMMA VOInit == ASSUME SaneVOEvents, Alerting!Init PROVE VOInv
<1> USE DEF Alerting!Init
<1>1. Alerting!TypeOK
    BY DEF Alerting!TypeOK, SaneVOEvents, Alerting!Tags, Alerting!There
<1>2. VOTypes
    BY DEF VOTypes, SaneVOEvents
<1>3. \A w \in Workers : JobInv(w)
    BY DEF JobInv, Making
<1>4. PastIsThere /\ Alerting!CitesTheirPast /\ Alerting!AnnouncedAreLogged
    BY DEF PastIsThere, Alerting!CitesTheirPast, Alerting!AnnouncedAreLogged
<1>5. Alerting!VOEventsGoOut
    BY IdTypes DEF Alerting!VOEventsGoOut, Alerting!There, Alerting!Numbers, SaneVOEvents
<1> QED BY <1>1, <1>2, <1>3, <1>4, <1>5 DEF VOInv

-----------------------------------------------------------------------------
(* Requests one step on.                                                   *)

\* The worker's request is at step d with text t and tag g; the others are where they were.
JobMoved(w, d, t, g) ==
       /\ jobs' \in [Workers -> Alerting!Jobs \cup {None}]
       /\ jobs'[w].do = d /\ jobs'[w].id = jobs[w].id /\ jobs'[w].text = t /\ jobs'[w].tag = g
       /\ \A v \in Workers \ {w} : jobs'[v] = jobs[v]

Ended(w) ==
    /\ jobs' \in [Workers -> Alerting!Jobs \cup {None}]
    /\ jobs'[w] = None
    /\ \A v \in Workers \ {w} : jobs'[v] = jobs[v]

LEMMA Moving ==
    ASSUME jobs \in [Workers -> Alerting!Jobs \cup {None}], NEW w \in Workers, Making(w),
           None \notin Alerting!Jobs,
           NEW d \in Alerting!Steps, NEW t \in SUBSET Alerting!Citations,
           NEW g \in Alerting!Tags \cup {None},
           \/ jobs' = [jobs EXCEPT ![w].do = d] /\ t = jobs[w].text /\ g = jobs[w].tag
           \/ jobs' = [jobs EXCEPT ![w].do = d, ![w].text = t] /\ g = jobs[w].tag
           \/ jobs' = [jobs EXCEPT ![w].do = d, ![w].tag = g] /\ t = jobs[w].text
    PROVE  /\ JobMoved(w, d, t, g)
           /\ Making(w)' /\ \A v \in Workers : Making(v)' = Making(v)
<1>1. jobs[w] \in [do : Alerting!Steps, id : Alerting!Ids, text : SUBSET Alerting!Citations,
                   tag : Alerting!Tags \cup {None}]
    BY JobTypes DEF Making
<1>2. jobs'[w] = [do |-> d, id |-> jobs[w].id, text |-> t, tag |-> g]
    BY <1>1
<1>3. jobs'[w] \in Alerting!Jobs
    BY <1>1, <1>2 DEF Alerting!Jobs
<1>4. \A v \in Workers \ {w} : jobs'[v] = jobs[v]
    OBVIOUS
<1>5. jobs' \in [Workers -> Alerting!Jobs \cup {None}]
    BY <1>3, <1>4
<1>6. Making(w)'
    BY <1>2, <1>3 DEF Making
<1>7. \A v \in Workers : Making(v)' = Making(v)
    BY <1>4, <1>6 DEF Making
<1> QED BY <1>2, <1>4, <1>5, <1>6, <1>7 DEF JobMoved

LEMMA Ending ==
    ASSUME jobs \in [Workers -> Alerting!Jobs \cup {None}], NEW w \in Workers, Alerting!Ends(w)
    PROVE  Ended(w)
BY DEF Alerting!Ends, Ended

\* The VOEvents in the making are the same.
LEMMA SameInMaking ==
    ASSUME jobs \in [Workers -> Alerting!Jobs \cup {None}], None \notin Alerting!Jobs,
           NEW w \in Workers, Making(w),
           NEW d, NEW t, NEW g, JobMoved(w, d, t, g), \A v \in Workers : Making(v)' = Making(v)
    PROVE  Alerting!InMaking' = Alerting!InMaking
<1>1. Alerting!InMaking' = {jobs'[v].id : v \in {u \in Workers : Making(u)'}}
    BY JobTypes DEF Alerting!InMaking, Making, JobMoved
<1>2. \A v \in Workers : jobs'[v].id = jobs[v].id
    BY DEF JobMoved
<1> QED BY <1>1, <1>2, MakingIsInMaking


\* What may happen beside a request.
LEMMA OthersKeep ==
    ASSUME SaneVOEvents, Alerting!TypeOK, VOTypes, NEW v \in Workers, JobInv(v), jobs'[v] = jobs[v],
           \A o \in Alerting!Owners : count[o] <= count'[o], count' \in [Alerting!Owners -> Nat],
           \A id \in Alerting!Ids : texts[id] # None => texts'[id] # None,
           filled \subseteq filled', logged \subseteq logged', excused \subseteq excused',
           \A id \in Alerting!Ids : Alerting!There(id) => past'[id] = past[id],
           \/ tag' = tag
           \/ tag = None
           \/ tag' = None /\ (Making(v) => jobs[v].id \in excused')
    PROVE  JobInv(v)'
<1> SUFFICES ASSUME Making(v) PROVE InOrder(v)' /\ WillCite(v)' /\ TagInHand(v)'
    BY DEF JobInv, Making
<1>1. /\ jobs[v].id \in Alerting!Ids
      /\ jobs[v].id[1] \in Alerting!Owners /\ jobs[v].id[2] \in Alerting!Numbers
    BY JobTypes, IdTypes DEF VOTypes, Making
<1>2. InOrder(v) /\ WillCite(v) /\ TagInHand(v)
    BY DEF JobInv
<1>3. Alerting!There(jobs[v].id) /\ Alerting!There(jobs[v].id)'
    <2>1. Alerting!There(jobs[v].id)
        BY <1>2 DEF InOrder
    <2>2. count \in [Alerting!Owners -> Nat]
        BY DEF Alerting!TypeOK, SaneVOEvents
    <2> QED BY <1>1, <2>1, <2>2 DEF Alerting!There, Alerting!Numbers
<1>4. InOrder(v)'
    BY <1>1, <1>2, <1>3 DEF InOrder
<1>5. WillCite(v)'
    BY <1>1, <1>2, <1>3 DEF WillCite
<1>6. TagInHand(v)'
    BY <1>1, <1>2 DEF TagInHand
<1> QED BY <1>4, <1>5, <1>6

\* What all steps of a request for a VOEvent start from.
LEMMA JobFacts ==
    ASSUME VOInv, NEW w \in Workers, Making(w)
    PROVE  /\ jobs[w].id \in Alerting!Ids /\ jobs[w].text \in SUBSET Alerting!Citations
           /\ jobs[w].tag \in Alerting!Tags \cup {None}
           /\ jobs[w].id[1] \in {"event", "superevent"} /\ jobs[w].id[2] \in Alerting!Numbers
           /\ jobs[w].id = <<jobs[w].id[1], jobs[w].id[2]>>
           /\ InOrder(w) /\ WillCite(w) /\ TagInHand(w)
BY JobTypes, IdTypes DEF VOInv, VOTypes, JobInv, Making

LEMMA BuildKeeps ==
    ASSUME SaneVOEvents, VOInv, NEW w \in Workers, Alerting!Build(w)
    PROVE  VOInv'
<1>0. Making(w)
    BY DEF Alerting!Build, Alerting!At, Making, Alerting!Steps
<1>1. jobs[w].id \in Alerting!Ids /\ jobs[w].tag \in Alerting!Tags \cup {None}
    BY <1>0, JobFacts
<1>2. Alerting!Cite(jobs[w].id) \in SUBSET Alerting!Citations
    <2>1. count[jobs[w].id[1]] \in 0 .. MaxVOEvents
        BY <1>0, JobFacts DEF VOInv, Alerting!TypeOK, Alerting!Owners
    <2>2. \A n \in 1 .. count[jobs[w].id[1]] : \A b \in BOOLEAN :
              [n |-> n, known |-> b] \in Alerting!Citations
        BY <2>1 DEF Alerting!Citations, Alerting!Numbers, SaneVOEvents
    <2>3. \A n \in 1 .. count[jobs[w].id[1]] : (<<jobs[w].id[1], n>> \in filled) \in BOOLEAN
        OBVIOUS
    <2>4. ASSUME NEW c \in Alerting!Cite(jobs[w].id)
          PROVE  c \in Alerting!Citations
        <3>1. PICK n \in (1 .. count[jobs[w].id[1]]) \ {jobs[w].id[2]} :
                  c = [n |-> n, known |-> <<jobs[w].id[1], n>> \in filled]
            BY <2>4 DEF Alerting!Cite
        <3> QED BY <2>2, <2>3, <3>1
    <2> QED BY <2>4
<1>3. /\ JobMoved(w, "write", Alerting!Cite(jobs[w].id), jobs[w].tag)
      /\ Making(w)' /\ \A v \in Workers : Making(v)' = Making(v)
    <2> DEFINE t == Alerting!Cite(jobs[w].id)
    <2>1. jobs' = [jobs EXCEPT ![w].do = "write", ![w].text = t]
        BY DEF Alerting!Build
    <2>2. t \in SUBSET Alerting!Citations
        BY <1>2
    <2> HIDE DEF t
    <2>3. /\ JobMoved(w, "write", t, jobs[w].tag)
          /\ Making(w)' /\ \A v \in Workers : Making(v)' = Making(v)
        BY <2>1, <2>2, <1>0, <1>1, Moving DEF VOInv, VOTypes, Alerting!Steps, SaneVOEvents
    <2> QED BY <2>3 DEF t
<1>4. Alerting!InMaking' = Alerting!InMaking
    BY <1>0, <1>3, SameInMaking DEF VOInv, VOTypes, SaneVOEvents
<1>5. UNCHANGED <<count, filled, texts, logged, tagged, tag, announced, failures, untags, past,
                   excused>>
    BY DEF Alerting!Build
<1>6. Alerting!TypeOK'
    BY <1>3, <1>5 DEF VOInv, Alerting!TypeOK, JobMoved, Alerting!There
<1>7. VOTypes'
    BY <1>3, <1>5 DEF VOInv, VOTypes, JobMoved, Alerting!There
<1>8. JobInv(w)'
    <2>1. \A n \in past[jobs[w].id] : [n |-> n, known |-> TRUE] \in Alerting!Cite(jobs[w].id)
        <3> SUFFICES ASSUME NEW n \in past[jobs[w].id]
                     PROVE  [n |-> n, known |-> TRUE] \in Alerting!Cite(jobs[w].id)
            OBVIOUS
        <3>1. <<jobs[w].id[1], n>> \in filled /\ n # jobs[w].id[2] /\ n \in Alerting!Numbers
            BY <1>1 DEF VOInv, PastIsThere, VOTypes
        <3>2. n \in 1 .. count[jobs[w].id[1]]
            <4>1. n <= count[jobs[w].id[1]]
                BY <3>1 DEF VOInv, Alerting!TypeOK, Alerting!There
            <4> QED BY <4>1, <3>1, <1>0, JobFacts
                    DEF Alerting!Numbers, VOInv, Alerting!TypeOK, Alerting!Owners, SaneVOEvents
        <3> QED BY <3>1, <3>2 DEF Alerting!Cite
    <2>2. WillCite(w)'
        BY <2>1, <1>3, <1>5 DEF WillCite, JobMoved
    <2>3. InOrder(w)'
        BY <1>0, <1>3, <1>5, JobFacts DEF InOrder, JobMoved, Alerting!There
    <2>4. TagInHand(w)'
        BY <1>0, <1>3, <1>5, JobFacts DEF TagInHand, JobMoved
    <2> QED BY <2>2, <2>3, <2>4 DEF JobInv
<1>9. \A v \in Workers \ {w} : JobInv(v)'
    BY <1>3, <1>5, OthersKeep DEF VOInv, JobMoved, Alerting!TypeOK, SaneVOEvents
<1>10. /\ PastIsThere' /\ Alerting!CitesTheirPast' /\ Alerting!AnnouncedAreLogged'
       /\ Alerting!VOEventsGoOut'
    BY <1>4, <1>5
       DEF VOInv, PastIsThere, Alerting!CitesTheirPast, Alerting!AnnouncedAreLogged,
           Alerting!VOEventsGoOut, Alerting!There
<1> QED BY <1>6, <1>7, <1>8, <1>9, <1>10 DEF VOInv

LEMMA WriteKeeps ==
    ASSUME SaneVOEvents, VOInv, NEW w \in Workers, Alerting!Write(w)
    PROVE  VOInv'
<1>0. Making(w)
    BY DEF Alerting!Write, Alerting!At, Making, Alerting!Steps
<1>1. /\ JobMoved(w, "fill", jobs[w].text, jobs[w].tag)
      /\ Making(w)' /\ \A v \in Workers : Making(v)' = Making(v)
    <2>1. "fill" \in Alerting!Steps /\ jobs' = [jobs EXCEPT ![w].do = "fill"]
        BY DEF Alerting!Steps, Alerting!Write, Alerting!Goes
    <2> QED BY <2>1, <1>0, JobFacts, Moving DEF VOInv, VOTypes, SaneVOEvents
<1>2. Alerting!InMaking' = Alerting!InMaking
    BY <1>0, <1>1, SameInMaking DEF VOInv, VOTypes, SaneVOEvents
<1>3. UNCHANGED <<count, filled, logged, tagged, tag, announced, failures, untags, past, excused>>
    BY DEF Alerting!Write
<1>4. texts' = [texts EXCEPT ![jobs[w].id] = jobs[w].text] /\ jobs[w].text # None
    BY <1>0, JobFacts DEF Alerting!Write, SaneVOEvents
<1>5. Alerting!TypeOK'
    BY <1>0, <1>1, <1>3, <1>4, JobFacts DEF VOInv, Alerting!TypeOK, JobMoved, Alerting!There
<1>6. VOTypes'
    <2>1. Alerting!There(jobs[w].id)
        BY <1>0, JobFacts DEF InOrder
    <2> QED BY <1>0, <1>1, <1>3, <1>4, <2>1, JobFacts
            DEF VOInv, VOTypes, Alerting!TypeOK, JobMoved, Alerting!There
<1>7. JobInv(w)'
    <2>1. WillCite(w)' /\ TagInHand(w)'
        BY <1>0, <1>1, <1>3, JobFacts DEF WillCite, TagInHand, JobMoved
    <2>2. InOrder(w)'
        BY <1>0, <1>1, <1>3, <1>4, JobFacts
           DEF InOrder, JobMoved, Alerting!There, VOInv, Alerting!TypeOK
    <2> QED BY <2>1, <2>2 DEF JobInv
<1>8. \A v \in Workers \ {w} : JobInv(v)'
    BY <1>0, <1>1, <1>3, <1>4, OthersKeep, JobFacts
       DEF VOInv, JobMoved, Alerting!TypeOK, SaneVOEvents
<1>9. Alerting!CitesTheirPast'
    <2>1. \A n \in past[jobs[w].id] : [n |-> n, known |-> TRUE] \in jobs[w].text
        BY <1>0, JobFacts DEF WillCite, Alerting!Write, Alerting!At
    <2> QED BY <1>0, <1>3, <1>4, <2>1, JobFacts DEF VOInv, Alerting!CitesTheirPast, Alerting!TypeOK
<1>10. PastIsThere' /\ Alerting!AnnouncedAreLogged' /\ Alerting!VOEventsGoOut'
    BY <1>2, <1>3
       DEF VOInv, PastIsThere, Alerting!AnnouncedAreLogged, Alerting!VOEventsGoOut, Alerting!There
<1> QED BY <1>5, <1>6, <1>7, <1>8, <1>9, <1>10 DEF VOInv

LEMMA FillKeeps ==
    ASSUME SaneVOEvents, VOInv, NEW w \in Workers, Alerting!Fill(w)
    PROVE  VOInv'
<1> DEFINE d == IF jobs[w].id[1] = "event" THEN "log" ELSE "get tag"
<1>0. Making(w)
    BY DEF Alerting!Fill, Alerting!At, Making, Alerting!Steps
<1>1. /\ JobMoved(w, d, jobs[w].text, jobs[w].tag)
      /\ Making(w)' /\ \A v \in Workers : Making(v)' = Making(v)
    <2>1. d \in Alerting!Steps /\ jobs' = [jobs EXCEPT ![w].do = d]
        BY DEF Alerting!Steps, Alerting!Fill, Alerting!Goes
    <2> HIDE DEF d
    <2> QED BY <2>1, <1>0, JobFacts, Moving DEF VOInv, VOTypes, SaneVOEvents
<1>2. Alerting!InMaking' = Alerting!InMaking
    <2> HIDE DEF d
    <2> QED BY <1>0, <1>1, SameInMaking DEF VOInv, VOTypes, SaneVOEvents
<1>3. UNCHANGED <<count, texts, logged, tagged, tag, announced, failures, untags, past, excused>>
    BY DEF Alerting!Fill
<1>4. /\ filled' = filled \cup {jobs[w].id}
      /\ Alerting!There(jobs[w].id) /\ texts[jobs[w].id] # None
    BY <1>0, JobFacts DEF Alerting!Fill, Alerting!At, InOrder
<1>5. Alerting!TypeOK' /\ VOTypes'
    BY <1>0, <1>1, <1>3, <1>4, JobFacts
       DEF VOInv, Alerting!TypeOK, VOTypes, JobMoved, Alerting!There
<1>6. JobInv(w)'
    <2>1. WillCite(w)' /\ TagInHand(w)'
        BY <1>0, <1>1, <1>3, JobFacts DEF WillCite, TagInHand, JobMoved
    <2>2. InOrder(w)'
        BY <1>0, <1>1, <1>3, <1>4, JobFacts
           DEF InOrder, JobMoved, Alerting!There, VOInv, Alerting!TypeOK
    <2> QED BY <2>1, <2>2 DEF JobInv
<1>7. \A v \in Workers \ {w} : JobInv(v)'
    <2> HIDE DEF d
    <2> QED BY <1>1, <1>3, <1>4, OthersKeep DEF VOInv, JobMoved, Alerting!TypeOK, SaneVOEvents
<1>8. /\ PastIsThere' /\ Alerting!CitesTheirPast' /\ Alerting!AnnouncedAreLogged'
      /\ Alerting!VOEventsGoOut'
    BY <1>2, <1>3, <1>4
       DEF VOInv, PastIsThere, Alerting!CitesTheirPast, Alerting!AnnouncedAreLogged,
                            Alerting!VOEventsGoOut, Alerting!There
<1> QED BY <1>5, <1>6, <1>7, <1>8 DEF VOInv

LEMMA LogKeeps ==
    ASSUME SaneVOEvents, VOInv, NEW w \in Workers, Alerting!Log(w)
    PROVE  VOInv'
<1> DEFINE d == IF jobs[w].id[1] = "event" THEN "get tag" ELSE "add tag"
<1>0. Making(w)
    BY DEF Alerting!Log, Alerting!At, Making, Alerting!Steps
<1>1. /\ JobMoved(w, d, jobs[w].text, jobs[w].tag)
      /\ Making(w)' /\ \A v \in Workers : Making(v)' = Making(v)
    <2>1. d \in Alerting!Steps /\ jobs' = [jobs EXCEPT ![w].do = d]
        BY DEF Alerting!Steps, Alerting!Log, Alerting!Goes
    <2> HIDE DEF d
    <2> QED BY <2>1, <1>0, JobFacts, Moving DEF VOInv, VOTypes, SaneVOEvents
<1>2. Alerting!InMaking' = Alerting!InMaking
    <2> HIDE DEF d
    <2> QED BY <1>0, <1>1, SameInMaking DEF VOInv, VOTypes, SaneVOEvents
<1>3. UNCHANGED <<count, filled, texts, tagged, tag, announced, failures, untags, past, excused>>
    BY DEF Alerting!Log
<1>4. logged' = logged \cup {jobs[w].id} /\ jobs[w].id \in filled
    BY <1>0, JobFacts DEF Alerting!Log, Alerting!At, InOrder
<1>5. Alerting!TypeOK' /\ VOTypes'
    BY <1>0, <1>1, <1>3, <1>4, JobFacts
       DEF VOInv, Alerting!TypeOK, VOTypes, JobMoved, Alerting!There
<1>6. JobInv(w)'
    <2>1. WillCite(w)'
        BY <1>0, <1>1 DEF WillCite, JobMoved
    <2>2. TagInHand(w)'
        BY <1>0, <1>1, <1>3, JobFacts DEF TagInHand, JobMoved, Alerting!Log, Alerting!At
    <2>3. InOrder(w)'
        BY <1>0, <1>1, <1>3, <1>4, JobFacts
           DEF InOrder, JobMoved, Alerting!There, VOInv, Alerting!TypeOK, Alerting!Log, Alerting!At
    <2> QED BY <2>1, <2>2, <2>3 DEF JobInv
<1>7. \A v \in Workers \ {w} : JobInv(v)'
    <2> HIDE DEF d
    <2> QED BY <1>1, <1>3, <1>4, OthersKeep DEF VOInv, JobMoved, Alerting!TypeOK, SaneVOEvents
<1>8. /\ PastIsThere' /\ Alerting!CitesTheirPast' /\ Alerting!AnnouncedAreLogged'
      /\ Alerting!VOEventsGoOut'
    BY <1>2, <1>3, <1>4
       DEF VOInv, PastIsThere, Alerting!CitesTheirPast, Alerting!AnnouncedAreLogged,
                            Alerting!VOEventsGoOut, Alerting!There
<1> QED BY <1>5, <1>6, <1>7, <1>8 DEF VOInv

\* A request that comes to its end.
LEMMA CountType ==
    ASSUME SaneVOEvents, VOInv
    PROVE  count \in [Alerting!Owners -> Nat] /\ \A o \in Alerting!Owners : count[o] <= count[o]
BY DEF VOInv, Alerting!TypeOK, SaneVOEvents

LEMMA EndKeeps ==
    ASSUME SaneVOEvents, VOInv, NEW w \in Workers, Alerting!Ends(w),
           UNCHANGED <<count, filled, texts, logged, tagged, tag, untags, past>>,
           announced \subseteq announced', announced' \subseteq logged,
           excused \subseteq excused', excused' \subseteq Alerting!Ids,
           failures' \in 0 .. MaxFailures,
           Making(w) => jobs[w].id \in announced' \cup excused'
    PROVE  VOInv'
<1>1. Ended(w)
    BY Ending DEF VOInv, VOTypes
<1>2. Alerting!TypeOK' /\ VOTypes'
    BY <1>1 DEF VOInv, Alerting!TypeOK, VOTypes, Ended, Alerting!There
<1>3. JobInv(w)'
    BY <1>1 DEF JobInv, Making, Ended
<1>4. \A v \in Workers \ {w} : JobInv(v)'
    BY <1>1, OthersKeep DEF VOInv, Ended, Alerting!TypeOK, SaneVOEvents
<1>5. PastIsThere' /\ Alerting!CitesTheirPast' /\ Alerting!AnnouncedAreLogged'
    BY DEF VOInv, PastIsThere, Alerting!CitesTheirPast, Alerting!AnnouncedAreLogged
<1>6. Alerting!VOEventsGoOut'
    <2> SUFFICES ASSUME NEW id \in Alerting!Ids, Alerting!There(id)
                 PROVE  id \in Alerting!InMaking' \cup announced' \cup excused'
        BY DEF Alerting!VOEventsGoOut, Alerting!There
    <2>1. CASE id \in Alerting!InMaking
        <3>1. PICK v \in Workers : Making(v) /\ id = jobs[v].id
            BY <2>1, MakingIsInMaking DEF VOInv, VOTypes, SaneVOEvents
        <3>2. CASE v = w
            BY <3>1, <3>2
        <3>3. CASE v # w
            <4>1. jobs'[v] = jobs[v] /\ jobs[v] \in Alerting!Jobs /\ jobs[v] # None
                BY <1>1, <3>1, <3>3 DEF Ended, VOInv, VOTypes, Making
            <4>2. "id" \in DOMAIN jobs[v]
                BY <3>1, <4>1, JobTypes DEF Making
            <4> QED BY <3>1, <4>1, <4>2 DEF Alerting!InMaking
        <3> QED BY <3>2, <3>3
    <2>2. CASE id \notin Alerting!InMaking
        BY <2>2 DEF VOInv, Alerting!VOEventsGoOut
    <2> QED BY <2>1, <2>2
<1> QED BY <1>2, <1>3, <1>4, <1>5, <1>6 DEF VOInv

LEMMA AlertKeeps ==
    ASSUME SaneVOEvents, VOInv, NEW w \in Workers, Alerting!Alert(w)
    PROVE  VOInv'
<1>1. Making(w) /\ jobs[w].do = "alert"
    BY DEF Alerting!Alert, Alerting!At, Making, Alerting!Steps
<1>2. jobs[w].id \in logged
    BY <1>1, JobFacts DEF InOrder
<1>3. announced \subseteq logged /\ excused \subseteq Alerting!Ids /\ failures \in 0 .. MaxFailures
    BY DEF VOInv, Alerting!AnnouncedAreLogged, VOTypes, Alerting!TypeOK
<1>4. /\ Alerting!Ends(w) /\ announced' = announced \cup {jobs[w].id}
      /\ UNCHANGED <<count, filled, texts, logged, tagged, tag, untags, past, excused, failures>>
    BY DEF Alerting!Alert
<1> QED BY <1>2, <1>3, <1>4, EndKeeps

LEMMA FailKeeps ==
    ASSUME SaneVOEvents, VOInv, NEW w \in Workers, Alerting!Fail(w)
    PROVE  VOInv'
<1>1. announced \subseteq logged /\ excused \subseteq Alerting!Ids /\ failures' \in 0 .. MaxFailures
    BY DEF VOInv, Alerting!AnnouncedAreLogged, VOTypes, Alerting!TypeOK, Alerting!Fail, SaneVOEvents
<1>2. /\ Alerting!Ends(w)
      /\ UNCHANGED <<count, filled, texts, logged, tagged, tag, untags, past, announced>>
    BY DEF Alerting!Fail
<1>3. /\ excused \subseteq excused' /\ excused' \subseteq Alerting!Ids
      /\ Making(w) => jobs[w].id \in excused'
    <2>1. CASE Making(w)
        <3>1. jobs[w].id \in Alerting!Ids
            BY <2>1, JobFacts
        <3> QED BY <2>1, <3>1, <1>1 DEF Alerting!Fail, Making
    <2>2. CASE ~ Making(w)
        BY <2>2, <1>1 DEF Alerting!Fail, Making
    <2> QED BY <2>1, <2>2
<1> QED BY <1>1, <1>2, <1>3, EndKeeps

\* The tag that was found goes with the request.
LEMMA FoundKeeps ==
    ASSUME SaneVOEvents, VOInv, NEW w \in Workers, Making(w), jobs[w].do \in {"get tag", "make tag"},
           tag # None, Alerting!Found(w),
           UNCHANGED <<count, filled, texts, logged, tagged, tag, announced, failures, untags, past,
                       excused>>
    PROVE  VOInv'
<1> DEFINE d == IF jobs[w].id[1] = "event" THEN "add tag" ELSE "log"
<1>1. /\ JobMoved(w, d, jobs[w].text, tag)
      /\ Making(w)' /\ \A v \in Workers : Making(v)' = Making(v)
    <2>1. d \in Alerting!Steps /\ jobs' = [jobs EXCEPT ![w].do = d, ![w].tag = tag]
        BY DEF Alerting!Steps, Alerting!Found
    <2>2. tag \in Alerting!Tags \cup {None}
        BY DEF VOInv, Alerting!TypeOK
    <2> HIDE DEF d
    <2> QED BY <2>1, <2>2, JobFacts, Moving DEF VOInv, VOTypes, SaneVOEvents
<1>2. Alerting!InMaking' = Alerting!InMaking
    <2> HIDE DEF d
    <2> QED BY <1>1, SameInMaking DEF VOInv, VOTypes, SaneVOEvents
<1>3. Alerting!TypeOK' /\ VOTypes'
    BY <1>1 DEF VOInv, Alerting!TypeOK, VOTypes, JobMoved, Alerting!There
<1>4. JobInv(w)'
    <2>1. WillCite(w)' /\ TagInHand(w)'
        BY <1>1, JobFacts DEF WillCite, TagInHand, JobMoved
    <2>2. InOrder(w)'
        BY <1>1, JobFacts DEF InOrder, JobMoved, Alerting!There
    <2> QED BY <2>1, <2>2 DEF JobInv
<1>5. \A v \in Workers \ {w} : JobInv(v)'
    <2>1. count \in [Alerting!Owners -> Nat] /\ \A o \in Alerting!Owners : count[o] <= count[o]
        BY CountType
    <2>2. \A v \in Workers \ {w} : jobs'[v] = jobs[v] /\ JobInv(v)
        BY <1>1 DEF VOInv, JobMoved
    <2> QED BY <2>1, <2>2, OthersKeep DEF VOInv
<1>6. /\ PastIsThere' /\ Alerting!CitesTheirPast' /\ Alerting!AnnouncedAreLogged'
      /\ Alerting!VOEventsGoOut'
    BY <1>2
       DEF VOInv, PastIsThere, Alerting!CitesTheirPast, Alerting!AnnouncedAreLogged,
           Alerting!VOEventsGoOut, Alerting!There
<1> QED BY <1>3, <1>4, <1>5, <1>6 DEF VOInv

LEMMA GetTagKeeps ==
    ASSUME SaneVOEvents, VOInv, NEW w \in Workers, Alerting!GetTag(w)
    PROVE  VOInv'
<1>1. Making(w) /\ jobs[w].do = "get tag"
    BY DEF Alerting!GetTag, Alerting!At, Making, Alerting!Steps
<1>2. UNCHANGED <<count, filled, texts, logged, tagged, tag, announced, failures, untags, past,
                   excused>>
    BY DEF Alerting!GetTag
<1>3. CASE tag # None
    BY <1>1, <1>2, <1>3, FoundKeeps DEF Alerting!GetTag
<1>4. CASE tag = None /\ jobs[w].id[1] = "event"
    <2>1. /\ JobMoved(w, "make tag", jobs[w].text, jobs[w].tag)
          /\ Making(w)' /\ \A v \in Workers : Making(v)' = Making(v)
        <3>1. "make tag" \in Alerting!Steps /\ jobs' = [jobs EXCEPT ![w].do = "make tag"]
            BY <1>4 DEF Alerting!Steps, Alerting!GetTag, Alerting!Goes
        <3> QED BY <3>1, <1>1, JobFacts, Moving DEF VOInv, VOTypes, SaneVOEvents
    <2>2. Alerting!InMaking' = Alerting!InMaking
        BY <1>1, <2>1, SameInMaking DEF VOInv, VOTypes, SaneVOEvents
    <2>3. Alerting!TypeOK' /\ VOTypes'
        BY <1>2, <2>1 DEF VOInv, Alerting!TypeOK, VOTypes, JobMoved, Alerting!There
    <2>4. JobInv(w)'
        <3>1. WillCite(w)' /\ TagInHand(w)'
            BY <1>1, <1>2, <2>1, JobFacts DEF WillCite, TagInHand, JobMoved
        <3>2. InOrder(w)'
            BY <1>1, <1>2, <1>4, <2>1, JobFacts DEF InOrder, JobMoved, Alerting!There
        <3> QED BY <3>1, <3>2 DEF JobInv
    <2>5. \A v \in Workers \ {w} : JobInv(v)'
        <3>1. count \in [Alerting!Owners -> Nat] /\ \A o \in Alerting!Owners : count[o] <= count[o]
            BY CountType
        <3>2. \A v \in Workers \ {w} : jobs'[v] = jobs[v] /\ JobInv(v)
            BY <2>1 DEF VOInv, JobMoved
        <3> QED BY <1>2, <3>1, <3>2, OthersKeep DEF VOInv
    <2>6. /\ PastIsThere' /\ Alerting!CitesTheirPast' /\ Alerting!AnnouncedAreLogged'
          /\ Alerting!VOEventsGoOut'
        BY <1>2, <2>2 DEF VOInv, PastIsThere, Alerting!CitesTheirPast, Alerting!AnnouncedAreLogged,
                          Alerting!VOEventsGoOut, Alerting!There
    <2> QED BY <2>3, <2>4, <2>5, <2>6 DEF VOInv
<1>5. CASE tag = None /\ jobs[w].id[1] # "event"
    <2>1. Alerting!Ends(w)
        BY <1>5 DEF Alerting!GetTag
    <2>2. jobs[w].id \in excused
        BY <1>1, <1>5, JobFacts DEF TagInHand
    <2>3. announced \subseteq logged /\ excused \subseteq Alerting!Ids /\ failures \in 0 .. MaxFailures
        BY DEF VOInv, Alerting!AnnouncedAreLogged, VOTypes, Alerting!TypeOK
    <2> QED BY <1>2, <2>1, <2>2, <2>3, EndKeeps
<1> QED BY <1>3, <1>4, <1>5

LEMMA MakeTagKeeps ==
    ASSUME SaneVOEvents, VOInv, NEW w \in Workers, Alerting!MakeTag(w)
    PROVE  VOInv'
<1>1. Making(w) /\ jobs[w].do = "make tag"
    BY DEF Alerting!MakeTag, Alerting!At, Making, Alerting!Steps
<1>2. UNCHANGED <<count, filled, texts, logged, tagged, announced, failures, untags, past>>
    BY DEF Alerting!MakeTag
<1>3. CASE /\ tag = None /\ tag' = untags + 1 /\ UNCHANGED excused
           /\ jobs' = [jobs EXCEPT ![w].do = "add tag", ![w].tag = tag']
    <2>0. tag' \in Alerting!Tags /\ tag' # None
        <3>1. untags + 1 \in Alerting!Tags
            BY DEF VOInv, Alerting!TypeOK, Alerting!Tags, SaneVOEvents
        <3> QED BY <1>3, <3>1 DEF SaneVOEvents
    <2>1. /\ JobMoved(w, "add tag", jobs[w].text, tag')
          /\ Making(w)' /\ \A v \in Workers : Making(v)' = Making(v)
        <3> DEFINE g == tag'
        <3>1. "add tag" \in Alerting!Steps /\ jobs' = [jobs EXCEPT ![w].do = "add tag", ![w].tag = g]
            BY <1>3 DEF Alerting!Steps
        <3>2. g \in Alerting!Tags \cup {None}
            BY <2>0
        <3> HIDE DEF g
        <3>3. /\ JobMoved(w, "add tag", jobs[w].text, g)
              /\ Making(w)' /\ \A v \in Workers : Making(v)' = Making(v)
            BY <3>1, <3>2, <1>1, JobFacts, Moving DEF VOInv, VOTypes, SaneVOEvents
        <3> QED BY <3>3 DEF g
    <2>2. Alerting!InMaking' = Alerting!InMaking
        <3> DEFINE g == tag'
        <3>1. JobMoved(w, "add tag", jobs[w].text, g) /\ \A v \in Workers : Making(v)' = Making(v)
            BY <2>1
        <3> HIDE DEF g
        <3> QED BY <3>1, <1>1, SameInMaking DEF VOInv, VOTypes, SaneVOEvents
    <2>3. Alerting!TypeOK' /\ VOTypes'
        BY <1>2, <1>3, <2>0, <2>1 DEF VOInv, Alerting!TypeOK, VOTypes, JobMoved, Alerting!There
    <2>4. JobInv(w)'
        <3>1. WillCite(w)'
            BY <2>1 DEF WillCite, JobMoved
        <3>2. TagInHand(w)'
            BY <2>0, <2>1 DEF TagInHand, JobMoved
        <3>3. InOrder(w)'
            BY <1>1, <1>2, <2>1, JobFacts DEF InOrder, JobMoved, Alerting!There
        <3> QED BY <3>1, <3>2, <3>3 DEF JobInv
    <2>5. \A v \in Workers \ {w} : JobInv(v)'
        <3>1. count \in [Alerting!Owners -> Nat] /\ \A o \in Alerting!Owners : count[o] <= count[o]
            BY CountType
        <3>2. \A v \in Workers \ {w} : jobs'[v] = jobs[v] /\ JobInv(v)
            BY <2>1 DEF VOInv, JobMoved
        <3> QED BY <1>2, <1>3, <3>1, <3>2, OthersKeep DEF VOInv
    <2>6. /\ PastIsThere' /\ Alerting!CitesTheirPast' /\ Alerting!AnnouncedAreLogged'
          /\ Alerting!VOEventsGoOut'
        BY <1>2, <1>3, <2>2
           DEF VOInv, PastIsThere, Alerting!CitesTheirPast, Alerting!AnnouncedAreLogged,
                                Alerting!VOEventsGoOut, Alerting!There
    <2> QED BY <2>3, <2>4, <2>5, <2>6 DEF VOInv
<1>4. CASE tag # None /\ Alerting!Found(w) /\ UNCHANGED <<tag, excused>>
    BY <1>1, <1>2, <1>4, FoundKeeps
<1>5. CASE Alerting!Ends(w) /\ excused' = excused \cup {jobs[w].id} /\ UNCHANGED tag
    <2>1. jobs[w].id \in Alerting!Ids
        BY <1>1, JobFacts
    <2>2. announced \subseteq logged /\ excused \subseteq Alerting!Ids /\ failures \in 0 .. MaxFailures
        BY DEF VOInv, Alerting!AnnouncedAreLogged, VOTypes, Alerting!TypeOK
    <2> QED BY <1>2, <1>5, <2>1, <2>2, EndKeeps
<1> QED BY <1>3, <1>4, <1>5 DEF Alerting!MakeTag

LEMMA AddTagKeeps ==
    ASSUME SaneVOEvents, VOInv, NEW w \in Workers, Alerting!AddTag(w)
    PROVE  VOInv'
<1>1. Making(w) /\ jobs[w].do = "add tag"
    BY DEF Alerting!AddTag, Alerting!At, Making, Alerting!Steps
<1>2. UNCHANGED <<count, filled, texts, logged, tag, announced, failures, untags, past, excused>>
    BY DEF Alerting!AddTag
<1>3. /\ jobs[w].tag # None /\ (jobs[w].tag = tag \/ jobs[w].id \in excused)
      /\ jobs[w].id \in logged /\ jobs[w].id \in Alerting!Ids
    BY <1>1, JobFacts DEF TagInHand, InOrder
<1>4. CASE jobs[w].tag = tag
    <2>0. tagged' = tagged \cup {jobs[w].id}
        BY <1>4 DEF Alerting!AddTag
    <2>1. /\ JobMoved(w, "alert", jobs[w].text, jobs[w].tag)
          /\ Making(w)' /\ \A v \in Workers : Making(v)' = Making(v)
        <3>1. "alert" \in Alerting!Steps /\ jobs' = [jobs EXCEPT ![w].do = "alert"]
            BY <1>4 DEF Alerting!Steps, Alerting!AddTag, Alerting!Goes
        <3> QED BY <3>1, <1>1, JobFacts, Moving DEF VOInv, VOTypes, SaneVOEvents
    <2>2. Alerting!InMaking' = Alerting!InMaking
        BY <1>1, <2>1, SameInMaking DEF VOInv, VOTypes, SaneVOEvents
    <2>3. Alerting!TypeOK' /\ VOTypes'
        BY <1>2, <1>3, <1>4, <2>0, <2>1
           DEF VOInv, Alerting!TypeOK, VOTypes, JobMoved, Alerting!There
    <2>4. JobInv(w)'
        <3>1. WillCite(w)' /\ TagInHand(w)'
            BY <1>1, <1>2, <2>1, JobFacts DEF WillCite, TagInHand, JobMoved
        <3>2. InOrder(w)'
            BY <1>1, <1>2, <1>3, <2>1, JobFacts DEF InOrder, JobMoved, Alerting!There
        <3> QED BY <3>1, <3>2 DEF JobInv
    <2>5. \A v \in Workers \ {w} : JobInv(v)'
        <3>1. count \in [Alerting!Owners -> Nat] /\ \A o \in Alerting!Owners : count[o] <= count[o]
            BY CountType
        <3>2. \A v \in Workers \ {w} : jobs'[v] = jobs[v] /\ JobInv(v)
            BY <2>1 DEF VOInv, JobMoved
        <3> QED BY <1>2, <3>1, <3>2, OthersKeep DEF VOInv
    <2>6. /\ PastIsThere' /\ Alerting!CitesTheirPast' /\ Alerting!AnnouncedAreLogged'
          /\ Alerting!VOEventsGoOut'
        BY <1>2, <2>2 DEF VOInv, PastIsThere, Alerting!CitesTheirPast, Alerting!AnnouncedAreLogged,
                          Alerting!VOEventsGoOut, Alerting!There
    <2> QED BY <2>3, <2>4, <2>5, <2>6 DEF VOInv
<1>5. CASE jobs[w].tag # tag
    <2>1. Alerting!Ends(w) /\ UNCHANGED tagged
        BY <1>5 DEF Alerting!AddTag
    <2>2. announced \subseteq logged /\ excused \subseteq Alerting!Ids /\ failures \in 0 .. MaxFailures
        BY DEF VOInv, Alerting!AnnouncedAreLogged, VOTypes, Alerting!TypeOK
    <2> QED BY <1>2, <1>3, <1>5, <2>1, <2>2, EndKeeps
<1> QED BY <1>4, <1>5

-----------------------------------------------------------------------------
(* The removal of the tag, and new requests.                               *)

\* A worker that removes a tag is not at work on a VOEvent.
LEMMA BesideMaking ==
    ASSUME jobs \in [Workers -> Alerting!Jobs \cup {None}], None \notin Alerting!Jobs,
           NEW w \in Workers,
           jobs' \in [Workers -> Alerting!Jobs \cup {None}], ~ Making(w), ~ Making(w)',
           \A v \in Workers \ {w} : jobs'[v] = jobs[v]
    PROVE  Alerting!InMaking' = Alerting!InMaking
<1>1. \A v \in Workers : (jobs[v] # None /\ "id" \in DOMAIN jobs[v]) <=> Making(v)
    BY JobTypes DEF Making
<1>2. \A v \in Workers : (jobs'[v] # None /\ "id" \in DOMAIN jobs'[v]) <=> Making(v)'
    BY JobTypes DEF Making
<1>3. \A v \in Workers : Making(v)' <=> Making(v)
    BY DEF Making
<1> QED BY <1>1, <1>2, <1>3 DEF Alerting!InMaking

LEMMA UntagKeeps ==
    ASSUME SaneVOEvents, VOInv, NEW id \in Alerting!Ids, Alerting!Untag(id)
    PROVE  VOInv'
<1>1. UNCHANGED <<count, filled, texts, logged, tag, jobs, announced, failures, past, excused>>
    BY DEF Alerting!Untag
<1>2. tagged' = tagged \ {id} /\ untags' \in 0 .. MaxUntags
    BY DEF Alerting!Untag, VOInv, Alerting!TypeOK, SaneVOEvents
<1>3. Alerting!TypeOK' /\ VOTypes'
    BY <1>1, <1>2 DEF VOInv, Alerting!TypeOK, VOTypes, Alerting!There
<1>4. \A w \in Workers : JobInv(w)'
    BY <1>1 DEF VOInv, JobInv, Making, InOrder, WillCite, TagInHand, Alerting!There
<1>5. /\ PastIsThere' /\ Alerting!CitesTheirPast' /\ Alerting!AnnouncedAreLogged'
      /\ Alerting!VOEventsGoOut'
    BY <1>1
       DEF VOInv, PastIsThere, Alerting!CitesTheirPast, Alerting!AnnouncedAreLogged,
           Alerting!VOEventsGoOut,
                Alerting!There, Alerting!InMaking
<1> QED BY <1>3, <1>4, <1>5 DEF VOInv

LEMMA UntagEventKeeps ==
    ASSUME SaneVOEvents, VOInv, NEW w \in Workers, NEW id \in Alerting!Ids, Alerting!UntagEvent(w, id)
    PROVE  VOInv'
<1>1. UNCHANGED <<count, filled, texts, logged, tag, announced, failures, past, excused>>
    BY DEF Alerting!UntagEvent
<1>2. tagged' = tagged \ {id} /\ untags' \in 0 .. MaxUntags
    BY DEF Alerting!UntagEvent, VOInv, Alerting!TypeOK, SaneVOEvents
<1>3. tag \in Alerting!Tags
    BY DEF Alerting!UntagEvent, VOInv, Alerting!TypeOK
<1>4. /\ jobs' \in [Workers -> Alerting!Jobs \cup {None}]
      /\ \A v \in Workers \ {w} : jobs'[v] = jobs[v]
      /\ jobs[w] = None /\ jobs'[w].do = "look"
    <2>1. [do |-> "look", tag |-> tag] \in Alerting!Jobs
        BY <1>3 DEF Alerting!Jobs
    <2> QED BY <2>1 DEF Alerting!UntagEvent, VOInv, VOTypes
<1>5. ~ Making(w) /\ ~ Making(w)'
    BY <1>4 DEF Making, Alerting!Steps
<1>6. Alerting!InMaking' = Alerting!InMaking
    BY <1>4, <1>5, BesideMaking DEF VOInv, VOTypes, SaneVOEvents
<1>7. Alerting!TypeOK' /\ VOTypes'
    BY <1>1, <1>2, <1>4 DEF VOInv, Alerting!TypeOK, VOTypes, Alerting!There
<1>8. JobInv(w)'
    BY <1>5 DEF JobInv
<1>9. \A v \in Workers \ {w} : JobInv(v)'
    <2>1. count \in [Alerting!Owners -> Nat] /\ \A o \in Alerting!Owners : count[o] <= count[o]
        BY CountType
    <2>2. \A v \in Workers \ {w} : jobs'[v] = jobs[v] /\ JobInv(v)
        BY <1>4 DEF VOInv
    <2> QED BY <1>1, <2>1, <2>2, OthersKeep DEF VOInv
<1>10. /\ PastIsThere' /\ Alerting!CitesTheirPast' /\ Alerting!AnnouncedAreLogged'
       /\ Alerting!VOEventsGoOut'
    BY <1>1, <1>6 DEF VOInv, PastIsThere, Alerting!CitesTheirPast, Alerting!AnnouncedAreLogged,
                      Alerting!VOEventsGoOut, Alerting!There
<1> QED BY <1>7, <1>8, <1>9, <1>10 DEF VOInv

LEMMA LookKeeps ==
    ASSUME SaneVOEvents, VOInv, NEW w \in Workers, Alerting!Look(w)
    PROVE  VOInv'
<1>1. ~ Making(w) /\ jobs[w] \in Alerting!Jobs
    BY DEF Alerting!Look, Alerting!At, Making, Alerting!Steps, VOInv, VOTypes
<1>2. UNCHANGED <<count, filled, texts, logged, tagged, tag, announced, failures, untags, past,
                   excused>>
    BY DEF Alerting!Look
<1>3. CASE Alerting!Ends(w)
    <2>1. announced \subseteq logged /\ excused \subseteq Alerting!Ids /\ failures \in 0 .. MaxFailures
        BY DEF VOInv, Alerting!AnnouncedAreLogged, VOTypes, Alerting!TypeOK
    <2> QED BY <1>1, <1>2, <1>3, <2>1, EndKeeps
<1>4. CASE Alerting!Goes(w, "delete")
    <2>1. jobs[w] \in [do : {"look", "delete"}, tag : Alerting!Tags]
        BY <1>1 DEF Alerting!Jobs, Alerting!Look, Alerting!At, Alerting!Steps
    <2>2. jobs'[w] \in [do : {"look", "delete"}, tag : Alerting!Tags] /\ jobs'[w].do = "delete"
        BY <1>4, <2>1 DEF Alerting!Goes, VOInv, VOTypes
    <2>3. \A v \in Workers \ {w} : jobs'[v] = jobs[v]
        BY <1>4 DEF Alerting!Goes
    <2>4. jobs' \in [Workers -> Alerting!Jobs \cup {None}]
        BY <1>4, <2>2, <2>3 DEF Alerting!Goes, VOInv, VOTypes, Alerting!Jobs
    <2>5. ~ Making(w)'
        BY <2>2 DEF Making, Alerting!Steps
    <2>6. Alerting!InMaking' = Alerting!InMaking
        BY <1>1, <2>3, <2>4, <2>5, BesideMaking DEF VOInv, VOTypes, SaneVOEvents
    <2>7. Alerting!TypeOK' /\ VOTypes'
        BY <1>2, <2>4 DEF VOInv, Alerting!TypeOK, VOTypes, Alerting!There
    <2>8. JobInv(w)'
        BY <2>5 DEF JobInv
    <2>9. \A v \in Workers \ {w} : JobInv(v)'
        <3>1. count \in [Alerting!Owners -> Nat] /\ \A o \in Alerting!Owners : count[o] <= count[o]
            BY CountType
        <3>2. \A v \in Workers \ {w} : jobs'[v] = jobs[v] /\ JobInv(v)
            BY <2>3 DEF VOInv
        <3> QED BY <1>2, <3>1, <3>2, OthersKeep DEF VOInv
    <2>10. /\ PastIsThere' /\ Alerting!CitesTheirPast' /\ Alerting!AnnouncedAreLogged'
           /\ Alerting!VOEventsGoOut'
        BY <1>2, <2>6 DEF VOInv, PastIsThere, Alerting!CitesTheirPast, Alerting!AnnouncedAreLogged,
                          Alerting!VOEventsGoOut, Alerting!There
    <2> QED BY <2>7, <2>8, <2>9, <2>10 DEF VOInv
<1> QED BY <1>3, <1>4 DEF Alerting!Look

LEMMA DeleteTagKeeps ==
    ASSUME SaneVOEvents, VOInv, NEW w \in Workers, Alerting!DeleteTag(w)
    PROVE  VOInv'
<1>1. ~ Making(w) /\ Alerting!Ends(w)
    BY DEF Alerting!DeleteTag, Alerting!At, Making, Alerting!Steps
<1>2. UNCHANGED <<count, filled, texts, logged, announced, failures, untags, past>>
    BY DEF Alerting!DeleteTag
<1>3. CASE jobs[w].tag # tag
    <2>1. announced \subseteq logged /\ excused \subseteq Alerting!Ids /\ failures \in 0 .. MaxFailures
        BY DEF VOInv, Alerting!AnnouncedAreLogged, VOTypes, Alerting!TypeOK
    <2>2. UNCHANGED <<tag, tagged, excused>>
        BY <1>3 DEF Alerting!DeleteTag
    <2> QED BY <1>1, <1>2, <2>1, <2>2, EndKeeps
<1>4. CASE jobs[w].tag = tag
    <2>1. tag' = None /\ tagged' = {} /\ excused' = excused \cup Alerting!InMaking
        BY <1>4 DEF Alerting!DeleteTag
    <2>2. Ended(w)
        BY <1>1, Ending DEF VOInv, VOTypes
    <2>3. ~ Making(w)'
        BY <2>2 DEF Making, Ended
    <2>4. Alerting!InMaking' = Alerting!InMaking
        BY <1>1, <2>2, <2>3, BesideMaking DEF VOInv, VOTypes, SaneVOEvents, Ended
    <2>5. Alerting!InMaking \subseteq Alerting!Ids
        BY MakingIsInMaking, JobFacts DEF VOInv, VOTypes, SaneVOEvents
    <2>6. Alerting!TypeOK' /\ VOTypes'
        BY <1>2, <2>1, <2>2, <2>5 DEF VOInv, Alerting!TypeOK, VOTypes, Alerting!There, Ended
    <2>7. JobInv(w)'
        BY <2>3 DEF JobInv
    <2>8. \A v \in Workers \ {w} : JobInv(v)'
        <3>1. count \in [Alerting!Owners -> Nat] /\ \A o \in Alerting!Owners : count[o] <= count[o]
            BY CountType
        <3>2. \A v \in Workers \ {w} : jobs'[v] = jobs[v] /\ JobInv(v)
            BY <2>2 DEF VOInv, Ended
        <3>3. \A v \in Workers : Making(v) => jobs[v].id \in excused'
            BY <2>1, MakingIsInMaking DEF VOInv, VOTypes, SaneVOEvents
        <3> QED BY <1>2, <2>1, <3>1, <3>2, <3>3, OthersKeep DEF VOInv
    <2>9. /\ PastIsThere' /\ Alerting!CitesTheirPast' /\ Alerting!AnnouncedAreLogged'
          /\ Alerting!VOEventsGoOut'
        BY <1>2, <2>1, <2>4
           DEF VOInv, PastIsThere, Alerting!CitesTheirPast, Alerting!AnnouncedAreLogged,
                                Alerting!VOEventsGoOut, Alerting!There
    <2> QED BY <2>6, <2>7, <2>8, <2>9 DEF VOInv
<1> QED BY <1>3, <1>4

LEMMA InsertKeeps ==
    ASSUME SaneVOEvents, VOInv, NEW w \in Workers, NEW o \in Alerting!Owners, Alerting!Insert(w, o)
    PROVE  VOInv'
<1> DEFINE n == count[o] + 1
           id == <<o, n>>
           job == [do |-> "build", id |-> id, text |-> {}, tag |-> None]
<1>1. UNCHANGED <<filled, texts, logged, tagged, tag, announced, failures, untags>>
    BY DEF Alerting!Insert
<1>2. count \in [Alerting!Owners -> Nat] /\ count \in [Alerting!Owners -> 0 .. MaxVOEvents]
    BY DEF VOInv, Alerting!TypeOK, SaneVOEvents
<1>3. n \in Alerting!Numbers
    <2>1. count["event"] + count["superevent"] < MaxVOEvents
        BY DEF Alerting!Insert
    <2>2. count["event"] \in Nat /\ count["superevent"] \in Nat /\ o \in {"event", "superevent"}
        BY <1>2 DEF Alerting!Owners
    <2> QED BY <2>1, <2>2 DEF Alerting!Numbers, SaneVOEvents
<1>4. id \in Alerting!Ids /\ id[1] = o /\ id[2] = n
    BY <1>3 DEF Alerting!Ids
<1>5. count' = [count EXCEPT ![o] = n]
    BY DEF Alerting!Insert
<1>6. /\ count' \in [Alerting!Owners -> 0 .. MaxVOEvents] /\ count' \in [Alerting!Owners -> Nat]
      /\ \A p \in Alerting!Owners : count[p] <= count'[p]
    BY <1>2, <1>3, <1>5 DEF Alerting!Numbers, SaneVOEvents
<1>7. \A i \in Alerting!Ids : /\ Alerting!There(i) => Alerting!There(i)' /\ i # id
                              /\ Alerting!There(i)' => Alerting!There(i) \/ i = id
    <2> SUFFICES ASSUME NEW i \in Alerting!Ids
                 PROVE  /\ Alerting!There(i) => Alerting!There(i)' /\ i # id
                        /\ Alerting!There(i)' => Alerting!There(i) \/ i = id
        OBVIOUS
    <2>1. i[1] \in Alerting!Owners /\ i[2] \in Nat /\ i = <<i[1], i[2]>>
        BY IdTypes DEF Alerting!Numbers
    <2>2. CASE i[1] = o
        BY <2>1, <2>2, <1>2, <1>4, <1>5 DEF Alerting!There
    <2>3. CASE i[1] # o
        BY <2>1, <2>3, <1>2, <1>4, <1>5 DEF Alerting!There
    <2> QED BY <2>2, <2>3
<1>8. id[2] <= count'[id[1]]
    BY <1>2, <1>4, <1>5
<1>9. /\ jobs' \in [Workers -> Alerting!Jobs \cup {None}]
      /\ jobs[w] = None /\ jobs'[w] = job /\ job \in Alerting!Jobs /\ job # None
      /\ \A v \in Workers \ {w} : jobs'[v] = jobs[v]
    <2>1. job \in Alerting!Jobs
        BY <1>4 DEF Alerting!Jobs, Alerting!Steps
    <2>2. jobs[w] = None /\ jobs' = [jobs EXCEPT ![w] = job]
        BY DEF Alerting!Insert
    <2> HIDE DEF job
    <2> QED BY <2>1, <2>2 DEF VOInv, VOTypes, SaneVOEvents
<1>10. Making(w)' /\ jobs'[w].id = id /\ jobs'[w].do = "build" /\ ~ Making(w)
    BY <1>9 DEF Making, Alerting!Steps
<1>11. Alerting!InMaking' = Alerting!InMaking \cup {id}
    <2>1. \A v \in Workers : (jobs[v] # None /\ "id" \in DOMAIN jobs[v]) <=> Making(v)
        BY JobTypes DEF Making, VOInv, VOTypes
    <2>2. \A v \in Workers : (jobs'[v] # None /\ "id" \in DOMAIN jobs'[v]) <=> Making(v)'
        BY JobTypes, <1>9 DEF Making
    <2>3. \A v \in Workers \ {w} : (Making(v)' <=> Making(v)) /\ jobs'[v] = jobs[v]
        BY <1>9 DEF Making
    <2> HIDE DEF id, job
    <2> QED BY <2>1, <2>2, <2>3, <1>10 DEF Alerting!InMaking
<1>12. announced \subseteq Alerting!Ids /\ (\A i \in announced : Alerting!There(i))
    BY DEF VOInv, VOTypes, Alerting!AnnouncedAreLogged, Alerting!TypeOK
<1>13. past' = [past EXCEPT ![id] = {m \in Alerting!Numbers : <<o, m>> \in announced}]
    BY DEF Alerting!Insert
<1>14. /\ past' \in [Alerting!Ids -> SUBSET Alerting!Numbers]
       /\ past'[id] = {m \in Alerting!Numbers : <<o, m>> \in announced}
       /\ \A i \in Alerting!Ids : i # id => past'[i] = past[i]
    <2>1. past \in [Alerting!Ids -> SUBSET Alerting!Numbers]
        BY DEF VOInv, VOTypes
    <2> HIDE DEF id
    <2> QED BY <2>1, <1>4, <1>13
<1>15. /\ excused \subseteq excused' /\ excused' \subseteq Alerting!Ids
       /\ o = "superevent" /\ tag = None => id \in excused'
    BY <1>4 DEF Alerting!Insert, VOInv, VOTypes
<1>16. Alerting!TypeOK'
    <2>1. \A i \in filled : Alerting!There(i)' /\ texts[i] # None
        BY <1>7 DEF VOInv, Alerting!TypeOK, VOTypes
    <2> QED BY <1>1, <1>6, <1>9, <2>1 DEF VOInv, Alerting!TypeOK
<1>17. VOTypes'
    BY <1>1, <1>7, <1>9, <1>14, <1>15 DEF VOInv, VOTypes
<1>18. JobInv(w)'
    <2>1. InOrder(w)'
        BY <1>8, <1>10 DEF InOrder, Alerting!There
    <2>2. WillCite(w)'
        BY <1>10 DEF WillCite
    <2>3. TagInHand(w)'
        <3> HIDE DEF id
        <3> QED BY <1>1, <1>4, <1>10, <1>15 DEF TagInHand
    <2> QED BY <2>1, <2>2, <2>3 DEF JobInv
<1>19. \A v \in Workers \ {w} : JobInv(v)'
    <2>1. \A v \in Workers \ {w} : jobs'[v] = jobs[v] /\ JobInv(v)
        BY <1>9 DEF VOInv
    <2>2. \A i \in Alerting!Ids : Alerting!There(i) => past'[i] = past[i]
        BY <1>7, <1>14
    <2> QED BY <1>1, <1>6, <1>15, <2>1, <2>2, OthersKeep DEF VOInv
<1>20. PastIsThere'
    <2> SUFFICES ASSUME NEW i \in Alerting!Ids, NEW m \in past'[i]
                 PROVE  <<i[1], m>> \in filled /\ m # i[2]
        BY <1>1 DEF PastIsThere
    <2>1. CASE i = id
        <3>1. m \in Alerting!Numbers /\ <<o, m>> \in announced
            BY <2>1, <1>14
        <3>2. <<o, m>> \in filled /\ <<o, m>> # id
            BY <3>1, <1>7, <1>12 DEF VOInv, Alerting!AnnouncedAreLogged, Alerting!TypeOK
        <3> QED BY <2>1, <3>2, <1>4
    <2>2. CASE i # id
        BY <2>2, <1>14 DEF VOInv, PastIsThere
    <2> QED BY <2>1, <2>2
<1>21. Alerting!CitesTheirPast'
    <2>1. \A i \in Alerting!Ids : texts[i] # None => past'[i] = past[i]
        BY <1>7, <1>14 DEF VOInv, VOTypes
    <2> QED BY <2>1, <1>1 DEF VOInv, Alerting!CitesTheirPast
<1>22. Alerting!AnnouncedAreLogged' /\ Alerting!VOEventsGoOut'
    BY <1>1, <1>7, <1>11, <1>15 DEF VOInv, Alerting!AnnouncedAreLogged, Alerting!VOEventsGoOut
<1> QED BY <1>9, <1>16, <1>17, <1>18, <1>19, <1>20, <1>21, <1>22 DEF VOInv

-----------------------------------------------------------------------------
LEMMA VOStep == ASSUME SaneVOEvents, VOInv, [Alerting!Next]_Alerting!vars PROVE VOInv'
<1>1. CASE Alerting!Next
    BY <1>1, InsertKeeps, BuildKeeps, WriteKeeps, FillKeeps, LogKeeps, GetTagKeeps, MakeTagKeeps,
       AddTagKeeps, AlertKeeps, FailKeeps, UntagKeeps, UntagEventKeeps, LookKeeps, DeleteTagKeeps
       DEF Alerting!Next
<1>2. CASE UNCHANGED Alerting!vars
    <2>1. UNCHANGED <<count, filled, texts, logged, tagged, tag, jobs, announced, failures, untags,
                      past, excused>>
        BY <1>2 DEF Alerting!vars
    <2>2. Alerting!TypeOK' /\ VOTypes' /\ PastIsThere'
        BY <2>1 DEF VOInv, Alerting!TypeOK, VOTypes, PastIsThere, Alerting!There
    <2>3. \A w \in Workers : JobInv(w)'
        BY <2>1 DEF VOInv, JobInv, Making, InOrder, WillCite, TagInHand, Alerting!There
    <2>4. Alerting!CitesTheirPast' /\ Alerting!AnnouncedAreLogged' /\ Alerting!VOEventsGoOut'
        BY <2>1
           DEF VOInv, Alerting!CitesTheirPast, Alerting!AnnouncedAreLogged,
               Alerting!VOEventsGoOut, Alerting!There, Alerting!InMaking
    <2> QED BY <2>2, <2>3, <2>4 DEF VOInv
<1> QED BY <1>1, <1>2

LEMMA InvKeepsPast == VOInv => Alerting!AlertsCiteTheirPast /\ Alerting!VOEventsGoOut
BY DEF VOInv, Alerting!AlertsCiteTheirPast

-----------------------------------------------------------------------------
(* The throttle.                                                           *)

\* The limits are numbers, and the clock may show its first time.
SaneThrottle ==
    Limit \in Nat /\ Duration \in Nat /\ MaxTime \in Nat \ {0} /\ MaxAsked \in Nat

\* The requests that went through, in their order.
Accounted ==
    /\ clock \in 1 .. MaxTime /\ expires \in Nat
    /\ phase \in [Workers -> {"idle", "store"}] /\ calm \in BOOLEAN
    /\ accepted \in Seq(Nat) /\ Len(accepted) <= MaxAsked
    /\ \A i \in DOMAIN accepted : 1 <= accepted[i] /\ accepted[i] <= clock
    /\ \A i, j \in DOMAIN accepted : i <= j => accepted[i] <= accepted[j]

\* A list of times, the newest first, each of them of a request of its own.
Genuine(list, times) ==
    /\ list \in Seq(Nat)
    /\ \A i, j \in DOMAIN list : i < j => list[i] >= list[j]
    /\ \E f \in Injection(DOMAIN list, DOMAIN times) :
           \A i \in DOMAIN list : list[i] = times[f[i]]

ListsAreGenuine ==
    /\ Genuine(cached, accepted)
    /\ DOMAIN own = Workers /\ \A w \in Workers : Genuine(own[w], accepted)

RefusedAtLimit ==
    refusals \in Seq(Nat) /\ \A i \in DOMAIN refusals : refusals[i] >= Limit

\* The list has the last requests, and those it does not have are too old to count.
Recent(list, times, t) ==
    /\ Len(list) <= Len(times)
    /\ \A i \in 1 .. Len(list) : list[i] = times[Len(times) + 1 - i]
    /\ \A j \in 1 .. Len(times) - Len(list) : times[j] + Duration <= t

\* While requests come one by one.
InTurn ==
    calm =>
        /\ \A v, w \in Workers : phase[v] = "store" /\ phase[w] = "store" => v = w
        /\ \A w \in Workers : phase[w] = "store" => Recent(own[w], accepted, clock)
        /\ Throttling!Rest => /\ Recent(cached, accepted, clock)
                              /\ \A i \in DOMAIN accepted : accepted[i] + Duration <= expires
        /\ \A i \in 1 .. Len(accepted) - Limit : accepted[i] + Duration <= accepted[i + Limit]

ThrottleInv == Accounted /\ ListsAreGenuine /\ RefusedAtLimit /\ InTurn

-----------------------------------------------------------------------------
\* The operators of the standard modules are the same when they are reached from Throttle.
LEMMA SameCount == ASSUME NEW S PROVE Throttling!Cardinality(S) = Cardinality(S)
BY DEF Throttling!Cardinality, Cardinality

LEMMA SameMax == ASSUME NEW S PROVE Throttling!Max(S) = Max(S)
BY DEF Throttling!Max, Max

\* A set of numbers up to a bound has a greatest one.
LEMMA GreatestIsThere ==
    ASSUME NEW n \in Nat, NEW S \in SUBSET (0 .. n), S # {}
    PROVE  \E m \in S : \A k \in S : k <= m
<1> DEFINE D == {k \in 1 .. n + 1 : \E m \in S : k <= m + 1}
           d == Cardinality(D)
<1>1. IsFiniteSet(1 .. n + 1) /\ D \subseteq 1 .. n + 1
    BY FS_Interval
<1>2. IsFiniteSet(D) /\ d \in Nat
    BY <1>1, FS_Subset, FS_CardinalityType
<1>3. ASSUME NEW k \in D PROVE k \in 1 .. d
    <2>1. 1 .. k \subseteq D
        BY <1>1
    <2>2. Cardinality(1 .. k) <= d
        BY <1>2, <2>1, FS_Subset
    <2>3. Cardinality(1 .. k) = k /\ k \in Nat /\ 1 <= k
        BY <1>1, FS_Interval
    <2> QED BY <1>2, <2>2, <2>3
<1>4. IsFiniteSet(1 .. d) /\ Cardinality(1 .. d) = d
    BY <1>2, FS_Interval
<1>5. D = 1 .. d
    BY <1>3, <1>4, FS_Subset
<1> HIDE DEF d
<1>6. \A m \in S : m + 1 \in 1 .. d
    <2>1. \A m \in S : m + 1 \in D
        OBVIOUS
    <2> QED BY <1>5, <2>1
<1>7. d \in D
    <2>1. PICK m \in S : m + 1 \in 1 .. d
        BY <1>6
    <2>2. d \in 1 .. d
        BY <1>2, <2>1
    <2> QED BY <1>5, <2>2
<1>8. PICK m \in S : d <= m + 1
    BY <1>7
<1>9. \A k \in S : k <= m
    BY <1>2, <1>6, <1>8
<1> QED BY <1>9

\* Numbers that lie close together are few.
LEMMA CloseAreFew ==
    ASSUME NEW n \in Nat, NEW m \in Nat, NEW S \in SUBSET (1 .. n),
           \A j, k \in S : k < j + m
    PROVE  Cardinality(S) <= m
<1>1. CASE S = {}
    BY <1>1, FS_EmptySet
<1>2. CASE S # {}
    <2>1. PICK g \in S : \A k \in S : k <= g
        <3>1. S \in SUBSET (0 .. n)
            OBVIOUS
        <3> QED BY <1>2, <3>1, GreatestIsThere
    <2>2. S \subseteq g - m + 1 .. g
        BY <2>1
    <2>3. g \in Int /\ g - m + 1 \in Int /\ g < g + m
        BY <2>1
    <2>4. IsFiniteSet(g - m + 1 .. g) /\ Cardinality(g - m + 1 .. g) = g - (g - m + 1) + 1
        BY <2>3, FS_Interval
    <2>5. Cardinality(S) <= Cardinality(g - m + 1 .. g)
        BY <2>2, <2>4, FS_Subset
    <2> QED BY <2>3, <2>4, <2>5
<1> QED BY <1>1, <1>2

\* What Pop leaves of a list: its beginning, and of a list in order all that still counts.
LEMMA PopLeaves ==
    ASSUME NEW list \in Seq(Nat), clock \in Nat, Duration \in Nat,
           \A i, j \in DOMAIN list : i < j => list[i] >= list[j]
    PROVE  /\ Throttling!Pop(list) \in Seq(Nat) /\ Len(Throttling!Pop(list)) <= Len(list)
           /\ \A i \in 1 .. Len(Throttling!Pop(list)) :
                  Throttling!Pop(list)[i] = list[i] /\ list[i] + Duration > clock
           /\ \A i \in Len(Throttling!Pop(list)) + 1 .. Len(list) : list[i] + Duration <= clock
<1> DEFINE K == {0} \cup {i \in DOMAIN list : list[i] + Duration > clock}
           k == Max(K)
<1>1. Len(list) \in Nat /\ DOMAIN list = 1 .. Len(list) /\ \A i \in DOMAIN list : list[i] \in Nat
    BY LenProperties, ElementOfSeq
<1>2. K \in SUBSET (0 .. Len(list)) /\ K # {}
    BY <1>1
<1>3. k \in K /\ \A i \in K : i <= k
    <2> HIDE DEF K
    <2>1. \E m \in K : \A i \in K : m >= i
        BY <1>1, <1>2, GreatestIsThere
    <2>2. k \in K /\ \A i \in K : k >= i
        BY <2>1 DEF Max
    <2> QED BY <1>1, <1>2, <2>2
<1>4. k \in 0 .. Len(list)
    BY <1>2, <1>3
<1>5. Throttling!Pop(list) = SubSeq(list, 1, k)
    BY SameMax DEF Throttling!Pop, Throttling!KeptAt
<1> HIDE DEF k
<1>6. /\ Throttling!Pop(list) \in Seq(Nat) /\ Len(Throttling!Pop(list)) = k
      /\ \A i \in 1 .. k : Throttling!Pop(list)[i] = list[i]
    <2>1. CASE k = 0
        <3>1. Throttling!Pop(list) = <<>>
            BY <1>1, <1>5, <2>1, SubSeqEmpty
        <3> QED BY <2>1, <3>1
    <2>2. CASE k # 0
        <3>1. \A i \in 1 .. k : i \in 1 .. Len(list)
            BY <1>1, <1>4
        <3>2. 1 \in Int /\ k \in Int /\ (\A i \in 1 .. k : i \in 1 .. Len(list)) /\ 1 <= k
            BY <1>1, <1>4, <2>2, <3>1
        <3> QED BY <1>1, <1>5, <3>2, SubSeqProperties
    <2> QED BY <2>1, <2>2
<1>7. \A i \in 1 .. k : list[i] + Duration > clock
    <2> SUFFICES ASSUME NEW i \in 1 .. k PROVE list[i] + Duration > clock
        OBVIOUS
    <2>1. i \in DOMAIN list /\ k \in DOMAIN list /\ list[k] + Duration > clock
        BY <1>1, <1>3, <1>4
    <2>2. list[i] >= list[k]
        BY <1>1, <1>4, <2>1
    <2> QED BY <1>1, <2>1, <2>2
<1>8. \A i \in k + 1 .. Len(list) : list[i] + Duration <= clock
    <2> SUFFICES ASSUME NEW i \in k + 1 .. Len(list) PROVE list[i] + Duration <= clock
        OBVIOUS
    <2>1. i \in DOMAIN list /\ i \notin K
        BY <1>1, <1>3, <1>4
    <2> QED BY <1>1, <2>1
<1> QED BY <1>1, <1>4, <1>6, <1>7, <1>8

-----------------------------------------------------------------------------
\* Lists that are genuine stay so when requests go through.
LEMMA GenuineStays ==
    ASSUME Accounted, NEW list, Genuine(list, accepted), NEW t \in Nat,
           accepted' = accepted \/ accepted' = Append(accepted, t)
    PROVE  Genuine(list, accepted')
<1>1. PICK f \in Injection(DOMAIN list, DOMAIN accepted) :
               \A i \in DOMAIN list : list[i] = accepted[f[i]]
    BY DEF Genuine
<1>2. /\ DOMAIN accepted \subseteq DOMAIN accepted'
      /\ \A i \in DOMAIN accepted : accepted'[i] = accepted[i]
    <2>1. CASE accepted' = accepted
        BY <2>1
    <2>2. CASE accepted' = Append(accepted, t)
        <3>1. accepted \in Seq(Nat) /\ Len(accepted) \in Nat
            BY DEF Accounted
        <3> QED BY <2>2, <3>1
    <2> QED BY <2>1, <2>2
<1>3. f \in Injection(DOMAIN list, DOMAIN accepted')
    BY <1>1, <1>2 DEF Injection
<1>4. \A i \in DOMAIN list : f[i] \in DOMAIN accepted
    BY <1>1 DEF Injection
<1>5. \A i \in DOMAIN list : list[i] = accepted'[f[i]]
    BY <1>1, <1>2, <1>4
<1> QED BY <1>3, <1>5 DEF Genuine

\* What Pop leaves of a genuine list is genuine.
LEMMA PopIsGenuine ==
    ASSUME SaneThrottle, Accounted, NEW list, Genuine(list, accepted)
    PROVE  Genuine(Throttling!Pop(list), accepted)
<1> DEFINE p == Throttling!Pop(list)
<1>1. list \in Seq(Nat) /\ clock \in Nat /\ Duration \in Nat
    BY DEF Genuine, Accounted, SaneThrottle
<1>2. \A i, j \in DOMAIN list : i < j => list[i] >= list[j]
    BY DEF Genuine
<1>3. /\ p \in Seq(Nat) /\ Len(p) <= Len(list)
      /\ \A i \in 1 .. Len(p) : p[i] = list[i]
    BY <1>1, <1>2, PopLeaves
<1> HIDE DEF p
<1>4. DOMAIN p = 1 .. Len(p) /\ DOMAIN list = 1 .. Len(list) /\ Len(p) \in Nat /\ Len(list) \in Nat
    BY <1>1, <1>3
<1>5. DOMAIN p \subseteq DOMAIN list
    BY <1>3, <1>4
<1>6. PICK f \in Injection(DOMAIN list, DOMAIN accepted) :
               \A i \in DOMAIN list : list[i] = accepted[f[i]]
    BY DEF Genuine
<1> DEFINE g == [i \in DOMAIN p |-> f[i]]
<1>7. g \in Injection(DOMAIN p, DOMAIN accepted)
    BY <1>5, <1>6 DEF Injection, IsInjective
<1>8. \A i \in DOMAIN p : p[i] = accepted[g[i]]
    BY <1>3, <1>4, <1>5, <1>6
<1>9. \A i, j \in DOMAIN p : i < j => p[i] >= p[j]
    BY <1>2, <1>3, <1>4, <1>5
<1> QED BY <1>3, <1>7, <1>8, <1>9 DEF Genuine, p

\* The empty list is genuine.
LEMMA EmptyIsGenuine == Genuine(<<>>, accepted)
<1>1. <<>> \in Seq(Nat) /\ DOMAIN <<>> = {}
    OBVIOUS
<1> DEFINE f == [i \in {} |-> 0]
<1>2. f \in Injection({}, DOMAIN accepted)
    BY DEF Injection, IsInjective
<1> HIDE DEF f
<1> QED BY <1>1, <1>2 DEF Genuine

\* The list a request finds in the table.
LEMMA StoredIsGenuine ==
    ASSUME ListsAreGenuine
    PROVE  Genuine(Throttling!Stored, accepted)
<1> QED BY EmptyIsGenuine DEF Throttling!Stored, ListsAreGenuine

LEMMA ThrottleInit == ASSUME SaneThrottle PROVE Throttling!Init => ThrottleInv
<1> SUFFICES ASSUME SaneThrottle, Throttling!Init PROVE ThrottleInv
    OBVIOUS
<1>1. Accounted
    BY DEF Throttling!Init, Accounted, SaneThrottle
<1>2. cached = <<>> /\ \A w \in Workers : own[w] = <<>>
    BY DEF Throttling!Init
<1>3. ListsAreGenuine
    BY <1>2, EmptyIsGenuine DEF ListsAreGenuine, Throttling!Init
<1>4. RefusedAtLimit
    BY DEF Throttling!Init, RefusedAtLimit
<1>5. InTurn
    BY DEF Throttling!Init, InTurn, Recent, Throttling!Rest, SaneThrottle
<1> QED BY <1>1, <1>3, <1>4, <1>5 DEF ThrottleInv

LEMMA TickKeeps == ASSUME SaneThrottle, ThrottleInv, Throttling!Tick PROVE ThrottleInv'
<1>1. /\ clock < MaxTime /\ clock' = clock + 1
      /\ UNCHANGED <<cached, expires, own, now, phase, accepted, refusals, calm>>
    BY DEF Throttling!Tick
<1>2. Accounted'
    BY <1>1 DEF ThrottleInv, Accounted, SaneThrottle
<1>3. ListsAreGenuine' /\ RefusedAtLimit'
    BY <1>1 DEF ThrottleInv, ListsAreGenuine, Genuine, RefusedAtLimit
<1>4. ASSUME NEW list \in Seq(Nat), Recent(list, accepted, clock) PROVE Recent(list, accepted', clock')
    <2>1. ASSUME NEW j \in 1 .. Len(accepted) - Len(list)
          PROVE  accepted[j] + Duration <= clock + 1
        <3>1. accepted[j] + Duration <= clock
            BY <1>4 DEF Recent
        <3>2. j \in DOMAIN accepted
            BY DEF ThrottleInv, Accounted
        <3> QED BY <3>1, <3>2 DEF ThrottleInv, Accounted, SaneThrottle
    <2> QED BY <1>1, <1>4, <2>1 DEF Recent
<1>5. InTurn'
    BY <1>1, <1>4 DEF ThrottleInv, InTurn, Throttling!Rest, ListsAreGenuine, Genuine
<1> QED BY <1>2, <1>3, <1>5 DEF ThrottleInv

LEMMA CullKeeps == ASSUME SaneThrottle, ThrottleInv, Throttling!Cull PROVE ThrottleInv'
<1>1. /\ cached' = <<>> /\ calm' = FALSE
      /\ UNCHANGED <<clock, expires, own, now, phase, accepted, refusals>>
    BY DEF Throttling!Cull
<1>2. Accounted' /\ RefusedAtLimit' /\ InTurn'
    BY <1>1 DEF ThrottleInv, Accounted, RefusedAtLimit, InTurn
<1>3. ListsAreGenuine'
    BY <1>1, EmptyIsGenuine DEF ThrottleInv, ListsAreGenuine, Genuine
<1> QED BY <1>2, <1>3 DEF ThrottleInv

\* The times of a list that still count are those of as many requests.
LEMMA ListCounts ==
    ASSUME SaneThrottle, Accounted, NEW list, Genuine(list, accepted),
           \A i \in DOMAIN list : list[i] + Duration > clock
    PROVE  LET t == IF clock < Duration THEN 0 ELSE clock - Duration
           IN  Throttling!Since(t) \in Nat /\ Len(list) <= Throttling!Since(t)
<1> DEFINE t == IF clock < Duration THEN 0 ELSE clock - Duration
           T == {i \in DOMAIN accepted : accepted[i] > t}
<1>1. PICK f \in Injection(DOMAIN list, DOMAIN accepted) :
               \A i \in DOMAIN list : list[i] = accepted[f[i]]
    BY DEF Genuine
<1>2. list \in Seq(Nat) /\ DOMAIN list = 1 .. Len(list) /\ Len(list) \in Nat
    BY DEF Genuine
<1>3. ASSUME NEW i \in DOMAIN list PROVE f[i] \in T
    <2>1. f[i] \in DOMAIN accepted /\ list[i] = accepted[f[i]]
        BY <1>1 DEF Injection
    <2>2. accepted[f[i]] \in Nat /\ 1 <= accepted[f[i]] /\ clock \in Nat /\ Duration \in Nat
        BY <2>1 DEF Accounted, SaneThrottle
    <2>3. accepted[f[i]] + Duration > clock
        BY <2>1
    <2> QED BY <2>1, <2>2, <2>3
<1>4. f \in Injection(1 .. Len(list), T)
    BY <1>1, <1>2, <1>3 DEF Injection
<1>5. IsFiniteSet(T)
    <2>1. accepted \in Seq(Nat) /\ Len(accepted) \in Nat /\ DOMAIN accepted = 1 .. Len(accepted)
        BY DEF Accounted
    <2>2. IsFiniteSet(DOMAIN accepted)
        BY <2>1, FS_Interval
    <2> QED BY <2>2, FS_Subset
<1>6. Cardinality(1 .. Len(list)) = Len(list)
    BY <1>2, FS_Interval
<1>7. Cardinality(T) \in Nat
    BY <1>5, FS_CardinalityType
<1> HIDE DEF T
<1>8. Cardinality(1 .. Len(list)) <= Cardinality(T)
    BY <1>4, <1>5, FS_Injection
<1> QED BY <1>6, <1>7, <1>8, SameCount DEF Throttling!Since, T

\* A request that is refused.
LEMMA RefuseKeeps ==
    ASSUME SaneThrottle, ThrottleInv, NEW w \in Workers,
           calm' = (calm /\ Throttling!Rest), Len(Throttling!Pop(Throttling!Stored)) >= Limit,
           refusals' = Append(refusals,
               Throttling!Since(IF clock < Duration THEN 0 ELSE clock - Duration)),
           UNCHANGED <<own, now, phase, accepted, clock, cached, expires>>
    PROVE  ThrottleInv'
<1> DEFINE p == Throttling!Pop(Throttling!Stored)
           n == Throttling!Since(IF clock < Duration THEN 0 ELSE clock - Duration)
<1>1. Genuine(Throttling!Stored, accepted) /\ Genuine(p, accepted)
    BY StoredIsGenuine, PopIsGenuine DEF ThrottleInv
<1>2. \A i \in DOMAIN p : p[i] + Duration > clock
    <2>1. Throttling!Stored \in Seq(Nat) /\ clock \in Nat /\ Duration \in Nat
        BY <1>1 DEF Genuine, ThrottleInv, Accounted, SaneThrottle
    <2>2. \A i, j \in DOMAIN Throttling!Stored : i < j => Throttling!Stored[i] >= Throttling!Stored[j]
        BY <1>1 DEF Genuine
    <2>3. /\ p \in Seq(Nat)
          /\ \A i \in 1 .. Len(p) :
                 p[i] = Throttling!Stored[i] /\ Throttling!Stored[i] + Duration > clock
        BY <2>1, <2>2, PopLeaves
    <2> HIDE DEF p
    <2> QED BY <2>3
<1> HIDE DEF p
<1>3. n \in Nat /\ Len(p) <= n /\ Len(p) \in Nat
    <2>1. n \in Nat /\ Len(p) <= n
        BY <1>1, <1>2, ListCounts DEF ThrottleInv
    <2>2. p \in Seq(Nat)
        BY <1>1 DEF Genuine
    <2> QED BY <2>1, <2>2
<1> HIDE DEF n
<1>4. refusals' = Append(refusals, n) /\ n >= Limit
    BY <1>3 DEF SaneThrottle, n, p
<1>5. RefusedAtLimit'
    BY <1>3, <1>4 DEF ThrottleInv, RefusedAtLimit
<1>6. Accounted' /\ ListsAreGenuine'
    BY DEF ThrottleInv, Accounted, ListsAreGenuine, Genuine, Throttling!Rest
<1>7. InTurn'
    BY DEF ThrottleInv, InTurn, Recent, Throttling!Rest, Accounted
<1> QED BY <1>5, <1>6, <1>7 DEF ThrottleInv

\* What has gone through is in the list, and the list does not reach the limit.
LEMMA RequestIsListed ==
    ASSUME SaneThrottle, ThrottleInv, calm, Throttling!Rest
    PROVE  Recent(Throttling!Pop(Throttling!Stored), accepted, clock)
<1> DEFINE s == Throttling!Stored
           p == Throttling!Pop(s)
           n == Len(accepted)
<1>1. /\ accepted \in Seq(Nat) /\ n \in Nat /\ clock \in Nat /\ Duration \in Nat /\ expires \in Nat
      /\ DOMAIN accepted = 1 .. n /\ \A i \in 1 .. n : accepted[i] \in Nat
    BY DEF ThrottleInv, Accounted, SaneThrottle
<1>2. Recent(s, accepted, clock)
    <2>1. CASE clock < expires
        BY <2>1 DEF ThrottleInv, InTurn, Throttling!Stored
    <2>2. CASE ~ clock < expires
        <3>1. s = <<>>
            BY <2>2 DEF Throttling!Stored
        <3>2. \A i \in 1 .. n : accepted[i] + Duration <= expires
            BY <1>1 DEF ThrottleInv, InTurn
        <3>3. \A i \in 1 .. n : accepted[i] + Duration <= clock
            BY <1>1, <2>2, <3>2
        <3> QED BY <1>1, <3>1, <3>3 DEF Recent
    <2> QED BY <2>1, <2>2
<1>3. Genuine(s, accepted)
    BY StoredIsGenuine DEF ThrottleInv
<1>4. s \in Seq(Nat) /\ \A i, j \in DOMAIN s : i < j => s[i] >= s[j]
    BY <1>3 DEF Genuine
<1> HIDE DEF s
<1>5. /\ p \in Seq(Nat) /\ Len(p) <= Len(s)
      /\ \A i \in 1 .. Len(p) : p[i] = s[i]
      /\ \A i \in Len(p) + 1 .. Len(s) : s[i] + Duration <= clock
    BY <1>1, <1>4, PopLeaves
<1> HIDE DEF p
<1>6. Len(p) \in Nat /\ Len(s) \in Nat
    BY <1>4, <1>5
<1>7. ASSUME NEW j \in 1 .. n - Len(p) PROVE accepted[j] + Duration <= clock
    <2>1. CASE j <= n - Len(s)
        BY <1>1, <1>2, <1>6, <2>1 DEF Recent
    <2>2. CASE j > n - Len(s)
        <3>1. n + 1 - j \in Len(p) + 1 .. Len(s)
            BY <1>1, <1>6, <2>2
        <3>2. s[n + 1 - j] = accepted[n + 1 - (n + 1 - j)]
            <4>1. n + 1 - j \in 1 .. Len(s)
                BY <1>6, <3>1
            <4> QED BY <1>2, <4>1 DEF Recent
        <3>3. n + 1 - (n + 1 - j) = j
            BY <1>1
        <3> QED BY <1>5, <3>1, <3>2, <3>3
    <2> QED BY <1>1, <1>6, <2>1, <2>2
<1>8. Len(p) <= n /\ \A i \in 1 .. Len(p) : p[i] = accepted[n + 1 - i]
    BY <1>1, <1>2, <1>5, <1>6 DEF Recent
<1>9. Recent(p, accepted, clock)
    BY <1>7, <1>8 DEF Recent
<1> QED BY <1>9 DEF p, s

\* The list a request that goes through puts itself on.
LEMMA FrontOfList ==
    ASSUME NEW t \in Nat, NEW list \in Seq(Nat)
    PROVE  /\ <<t>> \o list \in Seq(Nat) /\ Len(<<t>> \o list) = Len(list) + 1
           /\ (<<t>> \o list)[1] = t
           /\ \A i \in 1 .. Len(list) : (<<t>> \o list)[i + 1] = list[i]
           /\ \A i \in 2 .. Len(list) + 1 : (<<t>> \o list)[i] = list[i - 1]
    OBVIOUS

\* With the request put on it, the list has the last requests as before.
LEMMA FrontIsRecent ==
    ASSUME NEW list \in Seq(Nat), NEW times \in Seq(Nat), NEW t \in Nat,
           Recent(list, times, t)
    PROVE  Recent(<<t>> \o list, Append(times, t), t)
<1> DEFINE q == <<t>> \o list
           a == Append(times, t)
           n == Len(times)
           m == Len(list)
<1>1. /\ n \in Nat /\ Len(a) = n + 1 /\ a[n + 1] = t
      /\ \A i \in 1 .. n : a[i] = times[i]
    OBVIOUS
<1>2. /\ m \in Nat /\ Len(q) = m + 1 /\ q[1] = t
      /\ \A i \in 2 .. m + 1 : q[i] = list[i - 1]
    BY FrontOfList
<1>3. /\ m <= n /\ \A i \in 1 .. m : list[i] = times[n + 1 - i]
      /\ \A j \in 1 .. n - m : times[j] + Duration <= t
    BY DEF Recent
<1> HIDE DEF q, a, n, m
<1>4. ASSUME NEW i \in 1 .. m + 1 PROVE q[i] = a[n + 1 + 1 - i]
    <2>1. CASE i = 1
        <3>1. n + 1 + 1 - i = n + 1
            BY <1>1, <2>1
        <3> QED BY <1>1, <1>2, <2>1, <3>1
    <2>2. CASE i # 1
        <3>1. /\ i \in 2 .. m + 1 /\ i - 1 \in 1 .. m
              /\ n + 1 - (i - 1) = n + 1 + 1 - i /\ n + 1 + 1 - i \in 1 .. n
            BY <1>1, <1>2, <1>3, <2>2
        <3>2. q[i] = times[n + 1 - (i - 1)]
            BY <1>2, <1>3, <3>1
        <3> QED BY <1>1, <3>1, <3>2
    <2> QED BY <2>1, <2>2
<1>5. ASSUME NEW j \in 1 .. n + 1 - (m + 1) PROVE a[j] + Duration <= t
    <2>1. j \in 1 .. n - m /\ j \in 1 .. n
        BY <1>1, <1>2
    <2> QED BY <1>1, <1>3, <2>1
<1>6. Recent(q, a, t)
    BY <1>1, <1>2, <1>3, <1>4, <1>5 DEF Recent
<1> QED BY <1>6 DEF q, a

\* A request that goes through.
LEMMA AcceptKeeps ==
    ASSUME SaneThrottle, ThrottleInv, NEW w \in Workers, phase[w] = "idle",
           Len(accepted) < MaxAsked,
           calm' = (calm /\ Throttling!Rest), ~ Len(Throttling!Pop(Throttling!Stored)) >= Limit,
           own' = [own EXCEPT ![w] = <<clock>> \o Throttling!Pop(Throttling!Stored)],
           phase' = [phase EXCEPT ![w] = "store"],
           accepted' = Append(accepted, clock),
           UNCHANGED <<refusals, clock, cached, expires>>
    PROVE  ThrottleInv'
<1> DEFINE p == Throttling!Pop(Throttling!Stored)
           n == Len(accepted)
           q == <<clock>> \o p
<1>1. Genuine(p, accepted)
    BY StoredIsGenuine, PopIsGenuine DEF ThrottleInv
<1>2. p \in Seq(Nat) /\ Len(p) \in Nat /\ DOMAIN p = 1 .. Len(p)
    BY <1>1 DEF Genuine
<1>3. calm /\ Throttling!Rest => Recent(p, accepted, clock)
    BY RequestIsListed
<1>4. /\ accepted \in Seq(Nat) /\ n \in Nat /\ DOMAIN accepted = 1 .. n
      /\ clock \in Nat /\ 1 <= clock /\ clock \in 1 .. MaxTime
      /\ Limit \in Nat /\ Duration \in Nat /\ MaxAsked \in Nat
      /\ \A i \in 1 .. n : accepted[i] \in Nat /\ 1 <= accepted[i] /\ accepted[i] <= clock
      /\ \A i, j \in 1 .. n : i <= j => accepted[i] <= accepted[j]
    BY DEF ThrottleInv, Accounted, SaneThrottle
<1> HIDE DEF p
<1>5. /\ q \in Seq(Nat) /\ Len(q) = Len(p) + 1 /\ q[1] = clock
      /\ \A i \in 1 .. Len(p) : q[i + 1] = p[i]
      /\ \A i \in 2 .. Len(q) : q[i] = p[i - 1]
    BY <1>2, <1>4, FrontOfList
<1>6. own' = [own EXCEPT ![w] = q] /\ Len(p) < Limit
    BY <1>2, <1>4 DEF p
<1> HIDE DEF q
<1>7. /\ accepted' \in Seq(Nat) /\ Len(accepted') = n + 1 /\ accepted'[n + 1] = clock
      /\ DOMAIN accepted' = 1 .. n + 1
      /\ \A i \in 1 .. n : accepted'[i] = accepted[i]
    BY <1>4
<1>8. DOMAIN q = 1 .. Len(p) + 1
    BY <1>2, <1>5
<1> HIDE DEF n
<1>9. Accounted'
    <2>1. \A i \in 1 .. n + 1 : 1 <= accepted'[i] /\ accepted'[i] <= clock
        BY <1>4, <1>7
    <2>2. \A i, j \in 1 .. n + 1 : i <= j => accepted'[i] <= accepted'[j]
        BY <1>4, <1>7, <2>1
    <2>3. phase' \in [Workers -> {"idle", "store"}] /\ calm' \in BOOLEAN
        BY DEF ThrottleInv, Accounted
    <2>4. n + 1 <= MaxAsked
        BY <1>4 DEF n
    <2> QED BY <1>7, <2>1, <2>2, <2>3, <2>4 DEF ThrottleInv, Accounted
<1>10. \A i \in 1 .. Len(p) : p[i] <= clock
    <2>1. PICK f \in Injection(DOMAIN p, DOMAIN accepted) : \A i \in DOMAIN p : p[i] = accepted[f[i]]
        BY <1>1 DEF Genuine
    <2>2. \A i \in 1 .. Len(p) : f[i] \in 1 .. n
        BY <1>2, <1>4, <2>1 DEF Injection
    <2> QED BY <1>2, <1>4, <2>1, <2>2
<1>11. Genuine(q, accepted')
    <2>1. PICK f \in Injection(DOMAIN p, DOMAIN accepted) : \A i \in DOMAIN p : p[i] = accepted[f[i]]
        BY <1>1 DEF Genuine
    <2>2. /\ \A i \in 1 .. Len(p) : f[i] \in 1 .. n /\ p[i] = accepted[f[i]]
          /\ \A i, j \in 1 .. Len(p) : f[i] = f[j] => i = j
        BY <1>2, <1>4, <2>1 DEF Injection, IsInjective
    <2> DEFINE g == [i \in 1 .. Len(p) + 1 |-> IF i = 1 THEN n + 1 ELSE f[i - 1]]
    <2>3. \A i \in 2 .. Len(p) + 1 : i - 1 \in 1 .. Len(p) /\ g[i] = f[i - 1] /\ g[i] \in 1 .. n
        BY <1>2, <2>2
    <2>4. g[1] = n + 1 /\ \A i \in 1 .. Len(p) + 1 : i = 1 \/ i \in 2 .. Len(p) + 1
        BY <1>2
    <2>5. g \in [1 .. Len(p) + 1 -> 1 .. n + 1]
        <3>1. 1 .. n \subseteq 1 .. n + 1 /\ n + 1 \in 1 .. n + 1
            BY <1>4
        <3>2. \A i \in 1 .. Len(p) + 1 : g[i] \in 1 .. n + 1
            <4> HIDE DEF g
            <4> QED BY <2>3, <2>4, <3>1
        <3> QED BY <3>2
    <2>6. ASSUME NEW i \in 1 .. Len(p) + 1, NEW j \in 1 .. Len(p) + 1, g[i] = g[j] PROVE i = j
        <3> HIDE DEF g
        <3>1. CASE i = 1 \/ j = 1
            <4>1. \A k \in 2 .. Len(p) + 1 : g[k] # g[1]
                <5>1. n + 1 \notin 1 .. n
                    BY <1>4
                <5> QED BY <2>3, <2>4, <5>1
            <4> QED BY <2>4, <2>6, <3>1, <4>1
        <3>2. CASE i # 1 /\ j # 1
            <4>1. f[i - 1] = f[j - 1] /\ i - 1 \in 1 .. Len(p) /\ j - 1 \in 1 .. Len(p)
                BY <2>3, <2>4, <2>6, <3>2
            <4> QED BY <1>2, <2>2, <4>1
        <3> QED BY <3>1, <3>2
    <2>7. g \in Injection(DOMAIN q, DOMAIN accepted')
        <3> HIDE DEF g
        <3> QED BY <1>7, <1>8, <2>5, <2>6 DEF Injection, IsInjective
    <2>8. \A i \in DOMAIN q : q[i] = accepted'[g[i]]
        <3> HIDE DEF g
        <3>1. q[1] = accepted'[g[1]]
            BY <1>5, <1>7, <2>4
        <3>2. ASSUME NEW i \in 2 .. Len(p) + 1 PROVE q[i] = accepted'[g[i]]
            <4>1. i - 1 \in 1 .. Len(p) /\ g[i] = f[i - 1] /\ f[i - 1] \in 1 .. n /\ i \in 2 .. Len(q)
                BY <1>5, <2>2, <2>3
            <4>2. p[i - 1] = accepted[f[i - 1]] /\ q[i] = p[i - 1]
                BY <1>5, <2>2, <4>1
            <4> QED BY <1>7, <4>1, <4>2
        <3> QED BY <1>8, <2>4, <3>1, <3>2
    <2>9. \A i, j \in DOMAIN q : i < j => q[i] >= q[j]
        <3>1. ASSUME NEW i \in 1 .. Len(p) + 1, NEW j \in 1 .. Len(p) + 1, i < j PROVE q[i] >= q[j]
            <4>1. j \in 2 .. Len(q) /\ j - 1 \in 1 .. Len(p) /\ q[j] = p[j - 1]
                BY <1>2, <1>5, <3>1
            <4>2. CASE i = 1
                BY <1>2, <1>4, <1>5, <1>10, <4>1, <4>2
            <4>3. CASE i # 1
                <5>1. i - 1 \in 1 .. Len(p) /\ q[i] = p[i - 1] /\ i - 1 < j - 1
                    BY <1>2, <1>5, <3>1, <4>3
                <5>2. \A k, l \in 1 .. Len(p) : k < l => p[k] >= p[l]
                    BY <1>1, <1>2 DEF Genuine
                <5> QED BY <4>1, <5>1, <5>2
            <4> QED BY <4>2, <4>3
        <3> QED BY <1>8, <3>1
    <2> HIDE DEF g
    <2> QED BY <1>5, <2>7, <2>8, <2>9 DEF Genuine
<1>12. ListsAreGenuine'
    <2>1. ASSUME NEW list, Genuine(list, accepted) PROVE Genuine(list, accepted')
        BY <1>4, <2>1, GenuineStays DEF ThrottleInv
    <2>2. Genuine(cached', accepted')
        BY <2>1 DEF ThrottleInv, ListsAreGenuine
    <2>3. ASSUME NEW v \in Workers PROVE Genuine(own'[v], accepted')
        <3>1. CASE v = w
            <4>1. own'[w] = q
                BY <1>6 DEF ThrottleInv, ListsAreGenuine
            <4> QED BY <1>11, <3>1, <4>1
        <3>2. CASE v # w
            <4>1. own'[v] = own[v]
                BY <1>6, <3>2 DEF ThrottleInv, ListsAreGenuine
            <4>2. Genuine(own[v], accepted)
                BY DEF ThrottleInv, ListsAreGenuine
            <4> QED BY <2>1, <4>1, <4>2
        <3> QED BY <3>1, <3>2
    <2> QED BY <1>6, <2>2, <2>3 DEF ThrottleInv, ListsAreGenuine
<1>13. InTurn'
    <2> SUFFICES ASSUME calm' PROVE InTurn'
        BY DEF InTurn
    <2>1. calm /\ Throttling!Rest
        OBVIOUS
    <2>2. phase'[w] = "store" /\ \A v \in Workers \ {w} : phase'[v] = "idle"
        BY <2>1 DEF ThrottleInv, Accounted, Throttling!Rest
    <2>3. /\ Len(p) <= n /\ \A i \in 1 .. Len(p) : p[i] = accepted[n + 1 - i]
          /\ \A j \in 1 .. n - Len(p) : accepted[j] + Duration <= clock
        BY <1>3, <2>1 DEF Recent, n
    <2>4. Recent(q, accepted', clock')
        <3>1. Recent(q, Append(accepted, clock), clock)
            BY <1>2, <1>3, <1>4, <2>1, FrontIsRecent DEF q
        <3> QED BY <3>1
    <2>5. \A v \in Workers : phase'[v] = "store" => Recent(own'[v], accepted', clock')
        <3>1. own'[w] = q
            BY <1>6 DEF ThrottleInv, ListsAreGenuine
        <3> QED BY <2>2, <2>4, <3>1 DEF Recent
    <2>6. ASSUME NEW i \in 1 .. Len(accepted') - Limit
          PROVE  accepted'[i] + Duration <= accepted'[i + Limit]
        <3>0. Len(accepted') = n + 1
            BY <1>7
        <3>1. CASE i + Limit <= n
            <4>1. i \in 1 .. n - Limit /\ i \in 1 .. n /\ i + Limit \in 1 .. n
                BY <1>4, <3>0, <3>1
            <4> QED BY <1>7, <2>1, <4>1 DEF ThrottleInv, InTurn, n
        <3>2. CASE ~ i + Limit <= n
            <4>1. i + Limit = n + 1 /\ i \in 1 .. n - Len(p) /\ i \in 1 .. n
                BY <1>2, <1>4, <1>6, <3>0, <3>2
            <4> QED BY <1>7, <2>3, <4>1
        <3> QED BY <3>1, <3>2
    <2>7. /\ ~ Throttling!Rest'
          /\ \A u, v \in Workers : phase'[u] = "store" /\ phase'[v] = "store" => u = v
        BY <2>2 DEF Throttling!Rest
    <2>8. \A i \in 1 .. Len(accepted') - Limit : accepted'[i] + Duration <= accepted'[i + Limit]
        BY <2>6
    <2> QED BY <2>5, <2>7, <2>8 DEF InTurn
<1>14. RefusedAtLimit'
    BY DEF ThrottleInv, RefusedAtLimit
<1> QED BY <1>9, <1>12, <1>13, <1>14 DEF ThrottleInv

LEMMA AskKeeps ==
    ASSUME SaneThrottle, ThrottleInv, NEW w \in Workers, Throttling!Ask(w)
    PROVE  ThrottleInv'
<1>1. CASE Len(Throttling!Pop(Throttling!Stored)) >= Limit
    BY <1>1, RefuseKeeps DEF Throttling!Ask
<1>2. CASE ~ Len(Throttling!Pop(Throttling!Stored)) >= Limit
    BY <1>2, AcceptKeeps DEF Throttling!Ask
<1> QED BY <1>1, <1>2

LEMMA StoreKeeps ==
    ASSUME SaneThrottle, ThrottleInv, NEW w \in Workers, Throttling!Store(w)
    PROVE  ThrottleInv'
<1>1. /\ phase[w] = "store" /\ cached' = own[w] /\ expires' = clock + Duration
      /\ own' = [own EXCEPT ![w] = <<>>] /\ phase' = [phase EXCEPT ![w] = "idle"]
      /\ UNCHANGED <<clock, accepted, refusals, calm>>
    BY DEF Throttling!Store
<1>2. Accounted'
    BY <1>1 DEF ThrottleInv, Accounted, SaneThrottle
<1>3. ListsAreGenuine'
    <2>1. Genuine(cached', accepted')
        BY <1>1 DEF ThrottleInv, ListsAreGenuine, Genuine
    <2>2. ASSUME NEW v \in Workers PROVE Genuine(own'[v], accepted')
        <3>1. Genuine(own'[v], accepted)
            BY <1>1, EmptyIsGenuine DEF ThrottleInv, ListsAreGenuine
        <3> QED BY <1>1, <3>1 DEF Genuine
    <2> QED BY <1>1, <2>1, <2>2 DEF ThrottleInv, ListsAreGenuine
<1>4. RefusedAtLimit'
    BY <1>1 DEF ThrottleInv, RefusedAtLimit
<1>5. InTurn'
    <2> SUFFICES ASSUME calm PROVE InTurn'
        BY <1>1 DEF InTurn
    <2>1. Recent(cached', accepted', clock')
        BY <1>1 DEF ThrottleInv, InTurn, Recent
    <2>2. \A v \in Workers : phase'[v] = "idle"
        BY <1>1 DEF ThrottleInv, InTurn, Accounted
    <2>3. \A i \in DOMAIN accepted : accepted[i] + Duration <= clock + Duration
        BY DEF ThrottleInv, Accounted, SaneThrottle
    <2> QED BY <1>1, <2>1, <2>2, <2>3 DEF ThrottleInv, InTurn
<1> QED BY <1>2, <1>3, <1>4, <1>5 DEF ThrottleInv

LEMMA ThrottleStep ==
    ASSUME SaneThrottle, ThrottleInv, [Throttling!Next]_Throttling!vars PROVE ThrottleInv'
<1>1. CASE UNCHANGED Throttling!vars
    <2>1. Accounted' /\ RefusedAtLimit'
        BY <1>1 DEF ThrottleInv, Accounted, RefusedAtLimit, Throttling!vars
    <2>2. ListsAreGenuine'
        BY <1>1 DEF ThrottleInv, ListsAreGenuine, Genuine, Throttling!vars
    <2>3. InTurn'
        BY <1>1 DEF ThrottleInv, InTurn, Recent, Throttling!Rest, Throttling!vars
    <2> QED BY <2>1, <2>2, <2>3 DEF ThrottleInv
<1> QED BY <1>1, TickKeeps, CullKeeps, AskKeeps, StoreKeeps DEF Throttling!Next

\* The spacing of the requests bounds how many lie in a span.
LEMMA InvKeepsRate == ASSUME SaneThrottle, ThrottleInv PROVE Throttling!TypeOK /\ Throttling!RateIsKept
<1> DEFINE n == Len(accepted)
<1>1. /\ n \in Nat /\ DOMAIN accepted = 1 .. n /\ Limit \in Nat /\ Duration \in Nat
      /\ \A i \in 1 .. n : accepted[i] \in Nat
      /\ \A i, j \in 1 .. n : i <= j => accepted[i] <= accepted[j]
    BY DEF ThrottleInv, Accounted, SaneThrottle
<1>2. Throttling!TypeOK
    BY DEF ThrottleInv, Accounted, ListsAreGenuine, Genuine, Throttling!TypeOK
<1>3. ASSUME calm, NEW i \in DOMAIN accepted
      PROVE  Cardinality({j \in DOMAIN accepted :
                 accepted[i] <= accepted[j] /\ accepted[j] < accepted[i] + Duration}) <= Limit
    <2> DEFINE S == {j \in DOMAIN accepted :
                         accepted[i] <= accepted[j] /\ accepted[j] < accepted[i] + Duration}
    <2>1. \A k \in 1 .. n - Limit : accepted[k] + Duration <= accepted[k + Limit]
        BY <1>3 DEF ThrottleInv, InTurn
    <2>2. S \in SUBSET (1 .. n)
        BY <1>1
    <2> HIDE DEF n
    <2>3. ASSUME NEW j \in S, NEW k \in S, ~ k < j + Limit PROVE FALSE
        <3>1. /\ j \in 1 .. n - Limit /\ j + Limit \in 1 .. n /\ j + Limit <= k
              /\ j \in 1 .. n /\ k \in 1 .. n
            BY <1>1, <2>2, <2>3
        <3>2. accepted[j] + Duration <= accepted[j + Limit] /\ accepted[j + Limit] <= accepted[k]
            BY <1>1, <2>1, <3>1
        <3>3. accepted[i] <= accepted[j] /\ accepted[k] < accepted[i] + Duration
            OBVIOUS
        <3> QED BY <1>1, <1>3, <3>1, <3>2, <3>3
    <2> HIDE DEF S
    <2>4. Cardinality(S) <= Limit
        BY <1>1, <2>2, <2>3, CloseAreFew
    <2> QED BY <2>4 DEF S
<1> QED BY <1>2, <1>3, SameCount DEF Throttling!RateIsKept, ThrottleInv, RefusedAtLimit

-----------------------------------------------------------------------------
(* The submission of an event: what EventSubmissionProofs proves of the    *)
(* component holds of the component of a behaviour of this module.         *)

SubmissionP == INSTANCE EventSubmissionProofs WITH
    MaxRequests <- MaxHandled, MaxFaults <- MaxFailed,
    row <- event, inst <- held, requests <- handled, faults <- failed, announced <- alerted,
    calm <- quiet

\* The bounds are numbers, None is no event, and the labels are finitely many.
SaneSubmission ==
    /\ MaxUploads \in Nat /\ MaxHandled \in Nat /\ MaxFailed \in Nat
    /\ None \notin Submission!Row /\ IsFiniteSet(LabelNames)

\* The two instances have the same assumptions ...
LEMMA SameSubmissionSane == SaneSubmission => SubmissionP!Sane
BY DEF SaneSubmission, SubmissionP!Sane, SubmissionP!IsFiniteSet, IsFiniteSet,
        Submission!Groups, SubmissionP!Groups, Submission!Fars, SubmissionP!Fars,
        Submission!Row, SubmissionP!Row

\* ... the same initial states ...
LEMMA SameSubmissionInit == Submission!Init <=> SubmissionP!Init
BY DEF Submission!Files, SubmissionP!Files, Submission!Fresh, SubmissionP!Fresh,
        Submission!Init, SubmissionP!Init

\* ... the same steps ...
LEMMA SameSubmissionNext == Submission!Next <=> SubmissionP!Next
<1>1. ASSUME NEW w \in Workers PROVE Submission!Submit(w) <=> SubmissionP!Submit(w)
    BY DEF Submission!perms, SubmissionP!perms, Submission!details, SubmissionP!details,
        Submission!Idle, SubmissionP!Idle, Submission!Rest, SubmissionP!Rest, Submission!Do,
        SubmissionP!Do, Submission!Give, SubmissionP!Give, Submission!Label, SubmissionP!Label,
        Submission!Log, SubmissionP!Log, Submission!Write, SubmissionP!Write, Submission!Save,
        SubmissionP!Save, Submission!HandleUploadedData, SubmissionP!HandleUploadedData,
        Submission!AssignDefaults, SubmissionP!AssignDefaults, Submission!NewPermissions,
        SubmissionP!NewPermissions, Submission!NewData, SubmissionP!NewData,
        Submission!CreateEvent, SubmissionP!CreateEvent, Submission!Begin, SubmissionP!Begin,
        Submission!Fresh, SubmissionP!Fresh, Submission!Submit, SubmissionP!Submit,
        Submission!SetToSeq, SubmissionP!SetToSeq, Submission!IsInjective,
        SubmissionP!IsInjective, Submission!Cardinality, SubmissionP!Cardinality,
        Submission!IsFiniteSet, SubmissionP!IsFiniteSet
<1>2. ASSUME NEW w \in Workers PROVE Submission!Replace(w) <=> SubmissionP!Replace(w)
    BY DEF Submission!perms, SubmissionP!perms, Submission!details, SubmissionP!details,
        Submission!Idle, SubmissionP!Idle, Submission!Rest, SubmissionP!Rest, Submission!Do,
        SubmissionP!Do, Submission!Log, SubmissionP!Log, Submission!Write, SubmissionP!Write,
        Submission!Save, SubmissionP!Save, Submission!HandleUploadedData,
        SubmissionP!HandleUploadedData, Submission!ReplaceEvent, SubmissionP!ReplaceEvent,
        Submission!Begin, SubmissionP!Begin, Submission!Replace, SubmissionP!Replace
<1>3. ASSUME NEW w \in Workers PROVE Submission!ChangePermissions(w) <=> SubmissionP!ChangePermissions(w)
    BY DEF Submission!perms, SubmissionP!perms, Submission!details, SubmissionP!details,
        Submission!Idle, SubmissionP!Idle, Submission!Rest, SubmissionP!Rest, Submission!Do,
        SubmissionP!Do, Submission!Give, SubmissionP!Give, Submission!Take, SubmissionP!Take,
        Submission!UpdateEventPerms, SubmissionP!UpdateEventPerms, Submission!PutPermission,
        SubmissionP!PutPermission, Submission!DeletePermission, SubmissionP!DeletePermission,
        Submission!Begin, SubmissionP!Begin, Submission!ChangePermissions,
        SubmissionP!ChangePermissions
<1>4. ASSUME NEW w \in Workers PROVE Submission!Step(w) <=> SubmissionP!Step(w)
    BY DEF Submission!Files, SubmissionP!Files, Submission!perms, SubmissionP!perms,
        Submission!details, SubmissionP!details, Submission!bounds, SubmissionP!bounds,
        Submission!Idle, SubmissionP!Idle, Submission!Log, SubmissionP!Log, Submission!Fresh,
        SubmissionP!Fresh, Submission!Granted, SubmissionP!Granted, Submission!Taken,
        SubmissionP!Taken, Submission!End, SubmissionP!End, Submission!Insert,
        SubmissionP!Insert, Submission!PermissionStep, SubmissionP!PermissionStep,
        Submission!RefreshPerms, SubmissionP!RefreshPerms, Submission!LoadStep,
        SubmissionP!LoadStep, Submission!SaveStep, SubmissionP!SaveStep, Submission!DiskStep,
        SubmissionP!DiskStep, Submission!Annotate, SubmissionP!Annotate, Submission!DeleteStep,
        SubmissionP!DeleteStep, Submission!Step, SubmissionP!Step
<1>5. ASSUME NEW w \in Workers PROVE Submission!Fail(w) <=> SubmissionP!Fail(w)
    BY DEF Submission!perms, SubmissionP!perms, Submission!details, SubmissionP!details,
        Submission!Idle, SubmissionP!Idle, Submission!Do, SubmissionP!Do, Submission!IsUndone,
        SubmissionP!IsUndone, Submission!DeleteEvent, SubmissionP!DeleteEvent,
        Submission!AfterError, SubmissionP!AfterError, Submission!Raises, SubmissionP!Raises,
        Submission!Fail, SubmissionP!Fail
<1>6. ASSUME NEW w \in Workers PROVE Submission!Crash(w) <=> SubmissionP!Crash(w)
    BY DEF Submission!perms, SubmissionP!perms, Submission!details, SubmissionP!details,
        Submission!Idle, SubmissionP!Idle, Submission!Do, SubmissionP!Do, Submission!Crash,
        SubmissionP!Crash
<1>7. Submission!SetSuperevent <=> SubmissionP!SetSuperevent
    BY DEF Submission!perms, SubmissionP!perms, Submission!details, SubmissionP!details,
        Submission!bounds, SubmissionP!bounds, Submission!Idle, SubmissionP!Idle,
        Submission!Rest, SubmissionP!Rest, Submission!SetSuperevent, SubmissionP!SetSuperevent
<1> QED BY <1>1, <1>2, <1>3, <1>4, <1>5, <1>6, <1>7 DEF Submission!Next, SubmissionP!Next

\* ... and the same properties.
LEMMA SameSubmissionProperties ==
    /\ Submission!RefusedLeavesNothing <=> SubmissionP!RefusedLeavesNothing
    /\ Submission!ListsShowWhatOpens <=> SubmissionP!ListsShowWhatOpens
    /\ Submission!NothingIsOverwritten <=> SubmissionP!NothingIsOverwritten
BY DEF Submission!Groups, SubmissionP!Groups, Submission!Files, SubmissionP!Files,
        Submission!Fars, SubmissionP!Fars, Submission!Row, SubmissionP!Row, Submission!Idle,
        SubmissionP!Idle, Submission!Rest, SubmissionP!Rest, Submission!TypeOK,
        SubmissionP!TypeOK, Submission!RefusedLeavesNothing, SubmissionP!RefusedLeavesNothing,
        Submission!ListsShowWhatOpens, SubmissionP!ListsShowWhatOpens,
        Submission!NothingIsOverwritten, SubmissionP!NothingIsOverwritten

LEMMA SubmissionInit == SaneSubmission /\ Submission!Init => SubmissionP!SubmissionInv
BY SameSubmissionSane, SameSubmissionInit, SubmissionP!BeginsHeld

LEMMA SubmissionStep ==
    ASSUME SaneSubmission, SubmissionP!SubmissionInv, [Submission!Next]_(Submission!vars)
    PROVE  SubmissionP!SubmissionInv'
<1>1. [SubmissionP!Next]_(SubmissionP!vars)
    BY SameSubmissionNext DEF Submission!vars, SubmissionP!vars
<1> QED BY <1>1, SameSubmissionSane, SubmissionP!NextHolds

LEMMA InvKeepsSubmission ==
    SubmissionP!SubmissionInv =>
        /\ Submission!RefusedLeavesNothing /\ Submission!ListsShowWhatOpens
        /\ Submission!NothingIsOverwritten
BY SameSubmissionProperties, SubmissionP!HeldMeans

-----------------------------------------------------------------------------
(* The inductive invariant: that of the component the behaviour is of.     *)

ContactHolds == part = "contact" => ContactInv
RoomHolds == part = "room" => RoomInv
ThrottleHolds == part = "throttle" => ThrottleInv
VOEventsHold == part = "voevents" => VOInv
SubmissionHolds == part = "submission" => SubmissionP!SubmissionInv

LEMMA ContactAlways == ASSUME SaneContact PROVE ServicesSpec => []ContactHolds
<1>1. ServicesInit => ContactHolds
    BY ContactInit DEF ServicesInit, ContactHolds
<1>2. (ContactHolds /\ [ServicesNext]_allVars) => ContactHolds'
    <2> SUFFICES ASSUME ContactHolds, [ServicesNext]_allVars, part' = "contact"
                 PROVE  ContactInv'
        BY DEF ContactHolds
    <2>1. CASE part = "contact" /\ Contact!Next
        BY <2>1, ContactStep DEF ContactHolds
    <2>2. CASE part = "contact" /\ UNCHANGED allVars
        <3>1. UNCHANGED Contact!vars
            BY <2>2 DEF allVars, ofContact, Contact!vars
        <3> QED BY <2>2, <3>1, ContactStep DEF ContactHolds
    <2> QED BY <2>1, <2>2 DEF ServicesNext, allVars
<1> QED BY <1>1, <1>2, PTL DEF ServicesSpec

LEMMA RoomAlways == ASSUME SaneRoom PROVE ServicesSpec => []RoomHolds
<1>1. ServicesInit => RoomHolds
    BY RoomInit DEF ServicesInit, RoomHolds
<1>2. (RoomHolds /\ [ServicesNext]_allVars) => RoomHolds'
    <2> SUFFICES ASSUME RoomHolds, [ServicesNext]_allVars, part' = "room"
                 PROVE  RoomInv'
        BY DEF RoomHolds
    <2>1. CASE part = "room" /\ Room!Next
        BY <2>1, RoomStep DEF RoomHolds
    <2>2. CASE part = "room" /\ UNCHANGED allVars
        <3>1. UNCHANGED Room!vars
            BY <2>2 DEF allVars, ofRoom, Room!vars
        <3> QED BY <2>2, <3>1, RoomStep DEF RoomHolds
    <2> QED BY <2>1, <2>2 DEF ServicesNext, allVars
<1> QED BY <1>1, <1>2, PTL DEF ServicesSpec

LEMMA ThrottleAlways == ASSUME SaneThrottle PROVE ServicesSpec => []ThrottleHolds
<1>1. ServicesInit => ThrottleHolds
    BY ThrottleInit DEF ServicesInit, ThrottleHolds
<1>2. (ThrottleHolds /\ [ServicesNext]_allVars) => ThrottleHolds'
    <2> SUFFICES ASSUME ThrottleHolds, [ServicesNext]_allVars, part' = "throttle"
                 PROVE  ThrottleInv'
        BY DEF ThrottleHolds
    <2>1. CASE part = "throttle" /\ Throttling!Next
        BY <2>1, ThrottleStep DEF ThrottleHolds
    <2>2. CASE part = "throttle" /\ UNCHANGED allVars
        <3>1. UNCHANGED Throttling!vars
            BY <2>2 DEF allVars, ofThrottle, Throttling!vars
        <3> QED BY <2>2, <3>1, ThrottleStep DEF ThrottleHolds
    <2> QED BY <2>1, <2>2 DEF ServicesNext, allVars
<1> QED BY <1>1, <1>2, PTL DEF ServicesSpec

LEMMA VOEventsAlways == ASSUME SaneVOEvents PROVE ServicesSpec => []VOEventsHold
<1>1. ServicesInit => VOEventsHold
    BY VOInit DEF ServicesInit, VOEventsHold
<1>2. (VOEventsHold /\ [ServicesNext]_allVars) => VOEventsHold'
    <2> SUFFICES ASSUME VOEventsHold, [ServicesNext]_allVars, part' = "voevents"
                 PROVE  VOInv'
        BY DEF VOEventsHold
    <2>1. CASE part = "voevents" /\ Alerting!Next
        BY <2>1, VOStep DEF VOEventsHold
    <2>2. CASE part = "voevents" /\ UNCHANGED allVars
        <3>1. UNCHANGED Alerting!vars
            BY <2>2 DEF allVars, ofVOEvents, Alerting!vars
        <3> QED BY <2>2, <3>1, VOStep DEF VOEventsHold
    <2> QED BY <2>1, <2>2 DEF ServicesNext, allVars
<1> QED BY <1>1, <1>2, PTL DEF ServicesSpec

LEMMA SubmissionAlways == ASSUME SaneSubmission PROVE ServicesSpec => []SubmissionHolds
<1>1. ServicesInit => SubmissionHolds
    BY SubmissionInit DEF ServicesInit, SubmissionHolds
<1>2. (SubmissionHolds /\ [ServicesNext]_allVars) => SubmissionHolds'
    <2> SUFFICES ASSUME SubmissionHolds, [ServicesNext]_allVars, part' = "submission"
                 PROVE  SubmissionP!SubmissionInv'
        BY DEF SubmissionHolds
    <2>1. CASE part = "submission" /\ Submission!Next
        BY <2>1, SubmissionStep DEF SubmissionHolds
    <2>2. CASE part = "submission" /\ UNCHANGED allVars
        <3>1. UNCHANGED Submission!vars
            BY <2>2 DEF allVars, ofSubmission, Submission!vars
        <3> QED BY <2>2, <3>1, SubmissionStep DEF SubmissionHolds
    <2> QED BY <2>1, <2>2 DEF ServicesNext, allVars
<1> QED BY <1>1, <1>2, PTL DEF ServicesSpec

-----------------------------------------------------------------------------
(* The theorems.                                                           *)

\* However the requests of a user's pages overlap, a contact that is verified, or that a
\* notification names, is one whose owner has entered the code that was sent to it; and while
\* they do not overlap, one that a notification names is there and verified.
THEOREM OnlyEarnedIsVerified == ASSUME SaneContact PROVE ServicesSpec => []VerifiedIsEarned
<1>1. ContactHolds => VerifiedIsEarned
    BY DEF ContactHolds, ContactInv, EarnedBefore, PagesInTurn, VerifiedIsEarned,
           Contact!VerifiedIsEarned
<1> QED BY <1>1, ContactAlways, PTL

\* A user whose requests come one after the other is in the control room a request comes from
\* and in none afterwards; and however requests overlap, in none when all have ended, if none
\* was cut off.
THEOREM InRoomOnlyWhileAsking == ASSUME SaneRoom PROVE ServicesSpec => []InRoomWhileAsking
<1>1. RoomInv => Room!TypeOK /\ Room!InRoomWhileAsking
    <2> SUFFICES ASSUME RoomInv PROVE Room!TypeOK /\ Room!InRoomWhileAsking
        OBVIOUS
    <2>1. faults = 0 /\ Room!Rest => groups = {}
        BY DEF RoomInv, SomeoneLeaves, Room!Rest
    <2> QED BY <2>1 DEF RoomInv, AskingInTurn, Room!InRoomWhileAsking, Room!Viewing
<1>2. RoomHolds => InRoomWhileAsking
    BY <1>1 DEF RoomHolds, InRoomWhileAsking
<1> QED BY <1>2, RoomAlways, PTL

\* The text of a VOEvent cites, by its identifier, each VOEvent of the same object that had gone
\* out when its request began, whatever overlaps or fails; and one that has gone out has its file
\* and a log message that leads to it.
THEOREM VOEventsCiteTheirPast ==
    ASSUME SaneVOEvents PROVE ServicesSpec => []AlertsCiteTheirPast
<1>1. VOEventsHold => AlertsCiteTheirPast
    BY InvKeepsPast DEF VOEventsHold, AlertsCiteTheirPast
<1> QED BY <1>1, VOEventsAlways, PTL

\* A VOEvent whose request has come to its end has gone out or has one of the named excuses.
THEOREM VOEventsHaveGoneOut == ASSUME SaneVOEvents PROVE ServicesSpec => []VOEventsGoOut
<1>1. VOEventsHold => VOEventsGoOut
    BY InvKeepsPast DEF VOEventsHold, VOEventsGoOut
<1> QED BY <1>1, VOEventsAlways, PTL

\* When the requests of a user come one after the other and the table drops no list, no more
\* go through in any span of the duration than the limit; and however they overlap and
\* whatever is dropped, a request is refused only if as many have gone through just before.
THEOREM NoMoreThanTheRate == ASSUME SaneThrottle PROVE ServicesSpec => []RateIsKept
<1>1. ThrottleHolds => RateIsKept
    BY InvKeepsRate DEF ThrottleHolds, RateIsKept
<1> QED BY <1>1, ThrottleAlways, PTL

\* A submission that fails at any step leaves no event, no directory, no log message, no
\* label and no permission of the event's own class, if nothing fails on the way back.
THEOREM FailureLeavesNothing ==
    ASSUME SaneSubmission PROVE ServicesSpec => []RefusedLeavesNothing
<1>1. SubmissionHolds => RefusedLeavesNothing
    BY InvKeepsSubmission DEF SubmissionHolds, RefusedLeavesNothing
<1> QED BY <1>1, SubmissionAlways, PTL

\* Between requests that do not overlap and do not fail, lists show an event to the groups
\* with a row of the underlying event, and to every group that can open its page.
THEOREM ListedIsOpened == ASSUME SaneSubmission PROVE ServicesSpec => []ListsShowWhatOpens
<1>1. SubmissionHolds => ListsShowWhatOpens
    BY InvKeepsSubmission DEF SubmissionHolds, ListsShowWhatOpens
<1> QED BY <1>1, SubmissionAlways, PTL

\* While requests do not overlap and nothing fails, no save of a whole event takes back what
\* was asked for: the superevent, even if it took the event when it was announced and before
\* its labels were there, and the FAR.
THEOREM SavesKeepWishes == ASSUME SaneSubmission PROVE ServicesSpec => []NothingIsOverwritten
<1>1. SubmissionHolds => NothingIsOverwritten
    BY InvKeepsSubmission DEF SubmissionHolds, NothingIsOverwritten
<1> QED BY <1>1, SubmissionAlways, PTL
=============================================================================

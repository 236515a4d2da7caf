---------------------------- MODULE AccessProofs ----------------------------
(***************************************************************************)
(* Proofs about MCSuperevent, for any requests, users, logs, tags and      *)
(* workers, with crashes and without: who may see a superevent, who may    *)
(* see its log messages, and its signoffs.  Each component has its         *)
(* inductive invariant and the lemma that its steps keep it.               *)
(***************************************************************************)
EXTENDS MCSuperevent, SequenceTheorems, TLAPS

-----------------------------------------------------------------------------
(* SupereventExposure.                                                     *)

\* The bound is a number, and a request is of one kind.
SaneExposure == MaxStrays \in Nat /\ Modifiers \cap Updaters = {}

-----------------------------------------------------------------------------
(* The inductive invariant.                                                *)

Grants(exposed) == IF exposed THEN Exposure!AllPerms ELSE {}

\* The permissions a modify request has changed so far.
Changed(r) == {Exposure!SUPEREVENT_PERMS[i] : i \in 1 .. (next[r] - 1)}

\* They are as it wants them.
Halfway(r) ==
    /\ want[r] = "expose" => Changed(r) \subseteq granted
    /\ want[r] = "hide" => Changed(r) \cap granted = {}

\* The flag does not run ahead of the permissions.
FlagWaits(w) ==
    /\ w = "expose" /\ is_exposed => granted = Exposure!AllPerms
    /\ w = "hide" /\ ~ is_exposed => granted = {}

ExposureCalm ==
         calm =>
             /\ \A q, r \in Exposure!Active : Exposure!Compatible(q, r)
             /\ Exposure!Active = {} => granted = Grants(is_exposed)
             /\ \A u \in Updaters \cap Exposure!Active : /\ inst[u] = is_exposed
                                                         /\ granted = Grants(is_exposed)
             /\ \A r \in Modifiers \cap Exposure!Active : Halfway(r) /\ FlagWaits(want[r])

ExposureAlone ==
         \A r \in alone :
             /\ \A q \in alone \cup Exposure!Active : q = r
             /\ r \in Modifiers /\ pc[r] \in {"perms", "save"} => Halfway(r)
             /\ r \in Modifiers /\ pc[r] = "done" /\ next[r] > 1 =>
                    is_exposed = (want[r] = "expose") /\ granted = Grants(is_exposed)

\* Where all modify requests want the same, what has changed stays, and what a PATCH has
\* read of the flag is not ahead of the permissions either.
ExposureAgree ==
         \A w \in {"expose", "hide"} : Exposure!AllWant(w) =>
             /\ FlagWaits(w)
             /\ \A r \in Modifiers : pc[r] \in {"perms", "save"} => Halfway(r)
             /\ \A u \in Updaters : pc[u] = "save" =>
                    /\ w = "expose" /\ inst[u] => granted = Exposure!AllPerms
                    /\ w = "hide" /\ ~ inst[u] => granted = {}

\* A request that has not begun has changed nothing.
Untouched ==
    /\ \A r \in Modifiers : pc[r] = "start" => next[r] = 1
    /\ \A u \in Updaters : pc[u] # "perms"

ExposureInv == Exposure!TypeOK /\ Untouched /\ ExposureCalm /\ ExposureAlone /\ ExposureAgree

-----------------------------------------------------------------------------
LEMMA PermsAreThree ==
    /\ Len(Exposure!SUPEREVENT_PERMS) = 3
    /\ Exposure!AllPerms = {Exposure!SUPEREVENT_PERMS[i] : i \in 1 .. 3}
    /\ \A i \in 1 .. 3 : Exposure!SUPEREVENT_PERMS[i] \in Exposure!AllPerms
BY DEF Exposure!SUPEREVENT_PERMS, Exposure!AllPerms

\* One permission more, and all of them at the end.
LEMMA ChangedGrows ==
    ASSUME NEW r \in Modifiers, next[r] \in 1 .. 3, next'[r] = next[r] + 1
    PROVE  Changed(r)' = Changed(r) \cup {Exposure!SUPEREVENT_PERMS[next[r]]}
<1>1. 1 .. (next'[r] - 1) = (1 .. (next[r] - 1)) \cup {next[r]}
    OBVIOUS
<1> QED BY <1>1 DEF Changed

LEMMA ChangedAll ==
    ASSUME NEW r \in Modifiers, next[r] = 4
    PROVE  Changed(r) = Exposure!AllPerms
BY PermsAreThree DEF Changed

LEMMA ExposureInit == ASSUME SaneExposure PROVE Exposure!Init => ExposureInv
<1> SUFFICES ASSUME SaneExposure, Exposure!Init PROVE ExposureInv
    OBVIOUS
<1> USE DEF Exposure!Init
<1>1. Exposure!Active = {}
    BY DEF Exposure!Active
<1>2. Exposure!TypeOK
    <2>1. strays \in 0 .. MaxStrays
        BY DEF SaneExposure
    <2>2. next \in [Modifiers -> 1 .. Len(Exposure!SUPEREVENT_PERMS) + 1]
        BY PermsAreThree
    <2>3. is_exposed \in BOOLEAN /\ stray \in BOOLEAN /\ calm \in BOOLEAN
        OBVIOUS
    <2>4. granted \subseteq Exposure!AllPerms /\ inst \in [Exposure!Requests -> BOOLEAN]
        OBVIOUS
    <2>5. /\ pc \in [Exposure!Requests -> {"start", "perms", "save", "done", "failed"}]
          /\ \A r \in Modifiers : pc[r] \notin {"perms", "save"}
        BY DEF Exposure!Requests
    <2> QED BY <2>1, <2>2, <2>3, <2>4, <2>5 DEF Exposure!TypeOK
<1>3. Untouched
    BY DEF Untouched, Exposure!Requests
<1>4. ExposureCalm
    BY <1>1 DEF ExposureCalm, Grants
<1>5. ExposureAlone
    BY DEF ExposureAlone
<1>6. ExposureAgree
    BY DEF ExposureAgree, FlagWaits, Exposure!Requests
<1> QED BY <1>2, <1>3, <1>4, <1>5, <1>6 DEF ExposureInv

-----------------------------------------------------------------------------
\* A request that begins.
LEMMA RequestStartKeeps ==
    ASSUME SaneExposure, ExposureInv, NEW q \in Exposure!Requests, Exposure!Start(q),
           NEW l \in {"perms", "save", "done"}, Exposure!Goto(q, l),
           UNCHANGED <<is_exposed, granted, want, next, stray, strays>>,
           q \in Modifiers => l \in {"perms", "done"} /\ (l = "perms" <=> Exposure!Acts(q, is_exposed)),
           q \in Updaters => l = "save"
    PROVE  ExposureInv'
<1>1. /\ pc[q] = "start" /\ pc' = [pc EXCEPT ![q] = l]
      /\ inst' = [inst EXCEPT ![q] = is_exposed]
      /\ alone' = (IF Exposure!Active = {} THEN {q} ELSE {})
      /\ calm' = (calm /\ \A r \in Exposure!Active : Exposure!Compatible(r, q))
    BY DEF Exposure!Start, Exposure!Goto
<1>2. /\ pc'[q] = l /\ inst'[q] = is_exposed
      /\ \A r \in Exposure!Requests \ {q} : pc'[r] = pc[r] /\ inst'[r] = inst[r]
    BY <1>1 DEF ExposureInv, Exposure!TypeOK
<1>3. /\ q \notin Exposure!Active /\ Exposure!Active \subseteq Exposure!Requests \ {q}
      /\ Exposure!Active' = Exposure!Active \cup (IF l = "done" THEN {} ELSE {q})
    BY <1>1, <1>2 DEF Exposure!Active
<1>4. q \in Modifiers => next[q] = 1 /\ want[q] \in {"expose", "hide"} /\ Changed(q)' = {}
    BY <1>1 DEF ExposureInv, Untouched, Exposure!TypeOK, Changed
<1>5. \A r \in Modifiers : Halfway(r) => Halfway(r)'
    BY DEF Halfway, Changed
<1>6. q \in Modifiers => Halfway(q)'
    BY <1>4 DEF Halfway
<1>7. Exposure!TypeOK'
    <2>1. /\ pc' \in [Exposure!Requests -> {"start", "perms", "save", "done", "failed"}]
          /\ inst' \in [Exposure!Requests -> BOOLEAN]
        BY <1>1 DEF ExposureInv, Exposure!TypeOK
    <2>2. alone' \subseteq Exposure!Requests /\ calm' \in BOOLEAN
        BY <1>1 DEF ExposureInv, Exposure!TypeOK
    <2>3. \A r \in Modifiers : /\ pc'[r] = "perms" => next[r] <= Len(Exposure!SUPEREVENT_PERMS)
                               /\ pc'[r] = "save" => next[r] = Len(Exposure!SUPEREVENT_PERMS) + 1
        BY <1>2, <1>4, PermsAreThree DEF ExposureInv, Exposure!TypeOK, Exposure!Requests
    <2> QED BY <2>1, <2>2, <2>3 DEF ExposureInv, Exposure!TypeOK
<1>8. Untouched'
    BY <1>2 DEF ExposureInv, Untouched, Exposure!Requests, SaneExposure
<1>9. ExposureCalm'
    <2> SUFFICES ASSUME calm, \A r \in Exposure!Active : Exposure!Compatible(r, q)
                 PROVE  /\ \A p, r \in Exposure!Active' : Exposure!Compatible(p, r)'
                        /\ Exposure!Active' = {} => granted = Grants(is_exposed)
                        /\ \A u \in Updaters \cap Exposure!Active' : /\ inst'[u] = is_exposed
                                                                     /\ granted = Grants(is_exposed)
                        /\ \A r \in Modifiers \cap Exposure!Active' : Halfway(r)' /\ FlagWaits(want[r])
        BY <1>1 DEF ExposureCalm, Grants, FlagWaits
    <2>1. \A r \in Exposure!Active : Exposure!Compatible(q, r)
        BY <1>3 DEF Exposure!Compatible, Exposure!Requests, SaneExposure
    <2>2. Exposure!Compatible(q, q)
        BY DEF Exposure!Compatible, Exposure!Requests
    <2>3. \A p, r \in Exposure!Active' : Exposure!Compatible(p, r)'
        BY <1>3, <2>1, <2>2 DEF ExposureInv, ExposureCalm, Exposure!Compatible
    <2>4. Exposure!Active = {} => granted = Grants(is_exposed)
        BY DEF ExposureInv, ExposureCalm
    <2>5. ASSUME q \in Updaters PROVE granted = Grants(is_exposed)
        <3>1. CASE Exposure!Active = {}
            BY <2>4, <3>1
        <3>2. CASE Exposure!Active # {}
            <4>1. PICK r \in Exposure!Active : TRUE
                BY <3>2
            <4>2. r \in Updaters
                BY <2>5 DEF Exposure!Compatible
            <4> QED BY <4>1, <4>2 DEF ExposureInv, ExposureCalm
        <3> QED BY <3>1, <3>2
    <2>6. ASSUME q \in Modifiers PROVE FlagWaits(want[q])
        <3>1. CASE Exposure!Active = {}
            BY <2>4, <3>1 DEF FlagWaits, Grants
        <3>2. CASE Exposure!Active # {}
            <4>1. PICK r \in Exposure!Active : TRUE
                BY <3>2
            <4>2. r \in Modifiers /\ want[r] = want[q]
                BY <2>6 DEF Exposure!Compatible, SaneExposure
            <4>3. FlagWaits(want[r])
                BY <4>1, <4>2 DEF ExposureInv, ExposureCalm
            <4> QED BY <4>2, <4>3
        <3> QED BY <3>1, <3>2
    <2>7. \A u \in Updaters \cap Exposure!Active' : inst'[u] = is_exposed /\ granted = Grants(is_exposed)
        BY <1>2, <1>3, <2>5 DEF ExposureInv, ExposureCalm
    <2>8. \A r \in Modifiers \cap Exposure!Active' : Halfway(r)' /\ FlagWaits(want[r])
        BY <1>3, <1>5, <1>6, <2>6 DEF ExposureInv, ExposureCalm
    <2> QED BY <1>3, <2>3, <2>4, <2>7, <2>8
<1>10. ExposureAlone'
    <2> SUFFICES ASSUME Exposure!Active = {}
                 PROVE  /\ \A r \in Exposure!Active' : r = q
                        /\ q \in Modifiers => Halfway(q)'
                        /\ q \in Modifiers => next[q] = 1
        BY <1>1 DEF ExposureAlone
    <2> QED BY <1>3, <1>4, <1>6
<1>11. ExposureAgree'
    <2> SUFFICES ASSUME NEW w \in {"expose", "hide"}, Exposure!AllWant(w)
                 PROVE  /\ FlagWaits(w)
                        /\ \A r \in Modifiers : pc'[r] \in {"perms", "save"} => Halfway(r)'
                        /\ \A u \in Updaters : pc'[u] = "save" =>
                               /\ w = "expose" /\ inst'[u] => granted = Exposure!AllPerms
                               /\ w = "hide" /\ ~ inst'[u] => granted = {}
        BY DEF ExposureAgree, Exposure!AllWant, FlagWaits
    <2>1. FlagWaits(w)
        BY DEF ExposureInv, ExposureAgree
    <2>2. \A r \in Modifiers : pc'[r] \in {"perms", "save"} => Halfway(r)'
        BY <1>2, <1>5, <1>6 DEF ExposureInv, ExposureAgree, Exposure!Requests
    <2>3. \A u \in Updaters : pc'[u] = "save" =>
              /\ w = "expose" /\ inst'[u] => granted = Exposure!AllPerms
              /\ w = "hide" /\ ~ inst'[u] => granted = {}
        BY <1>2, <2>1 DEF ExposureInv, ExposureAgree, FlagWaits, Exposure!Requests
    <2> QED BY <2>1, <2>2, <2>3
<1> QED BY <1>7, <1>8, <1>9, <1>10, <1>11 DEF ExposureInv

LEMMA ChangePermKeeps ==
    ASSUME SaneExposure, ExposureInv, NEW q \in Modifiers, Exposure!ChangePerm(q)
    PROVE  ExposureInv'
<1> DEFINE p == Exposure!SUPEREVENT_PERMS[next[q]]
           l == IF next[q] = 3 THEN "save" ELSE "perms"
<1>0. q \in Exposure!Requests /\ q \notin Updaters
    BY DEF Exposure!Requests, SaneExposure
<1>1. /\ pc[q] = "perms" /\ next[q] \in 1 .. 3 /\ want[q] \in {"expose", "hide"}
    BY PermsAreThree DEF Exposure!ChangePerm, ExposureInv, Exposure!TypeOK
<1>2. /\ granted' = (IF want[q] = "expose" THEN granted \cup {p} ELSE granted \ {p})
      /\ next' = [next EXCEPT ![q] = @ + 1]
      /\ UNCHANGED <<is_exposed, want, inst, stray, strays, alone, calm>>
    BY DEF Exposure!ChangePerm, Exposure!RemovePerm
<1>3. /\ next'[q] = next[q] + 1 /\ \A r \in Modifiers \ {q} : next'[r] = next[r]
    BY <1>2 DEF ExposureInv, Exposure!TypeOK
<1>4. pc' = [pc EXCEPT ![q] = l]
    <2>1. Exposure!AllChanged(next'[q]) <=> next[q] = 3
        BY <1>1, <1>3, PermsAreThree DEF Exposure!AllChanged
    <2>2. pc' = [pc EXCEPT ![q] = IF Exposure!AllChanged(next'[q]) THEN "save" ELSE "perms"]
        BY DEF Exposure!ChangePerm, Exposure!Goto
    <2> QED BY <2>1, <2>2
<1>5. pc'[q] = l /\ \A r \in Exposure!Requests \ {q} : pc'[r] = pc[r]
    BY <1>0, <1>4 DEF ExposureInv, Exposure!TypeOK
<1>6. Exposure!Active' = Exposure!Active /\ q \in Exposure!Active
    BY <1>0, <1>1, <1>5 DEF Exposure!Active
<1>7. Changed(q)' = Changed(q) \cup {p}
    BY <1>1, <1>3, ChangedGrows
<1>8. \A r \in Modifiers \ {q} : Changed(r)' = Changed(r)
    BY <1>3 DEF Changed
<1>9. granted \subseteq Exposure!AllPerms /\ p \in Exposure!AllPerms
    BY <1>1, PermsAreThree DEF ExposureInv, Exposure!TypeOK
<1> HIDE DEF p
<1>10. ASSUME NEW r \in Modifiers, Halfway(r), want[r] = want[q]
       PROVE  Halfway(r)'
    BY <1>1, <1>2, <1>7, <1>8, <1>10 DEF Halfway
<1>11. FlagWaits(want[q]) => FlagWaits(want[q])'
    BY <1>1, <1>2, <1>9 DEF FlagWaits
<1>12. Exposure!TypeOK'
    <2>1. pc' \in [Exposure!Requests -> {"start", "perms", "save", "done", "failed"}]
        BY <1>4 DEF ExposureInv, Exposure!TypeOK
    <2>2. next' \in [Modifiers -> 1 .. Len(Exposure!SUPEREVENT_PERMS) + 1]
        BY <1>1, <1>2, PermsAreThree DEF ExposureInv, Exposure!TypeOK
    <2>3. granted' \subseteq Exposure!AllPerms
        BY <1>2, <1>9
    <2>4. \A r \in Modifiers : /\ pc'[r] = "perms" => next'[r] <= Len(Exposure!SUPEREVENT_PERMS)
                               /\ pc'[r] = "save" => next'[r] = Len(Exposure!SUPEREVENT_PERMS) + 1
        BY <1>1, <1>3, <1>5, PermsAreThree DEF ExposureInv, Exposure!TypeOK, Exposure!Requests
    <2> QED BY <1>2, <2>1, <2>2, <2>3, <2>4 DEF ExposureInv, Exposure!TypeOK
<1>13. Untouched'
    BY <1>0, <1>3, <1>5 DEF ExposureInv, Untouched, Exposure!Requests
<1>14. ExposureCalm'
    <2> SUFFICES ASSUME calm
                 PROVE  /\ \A s, r \in Exposure!Active' : Exposure!Compatible(s, r)'
                        /\ Exposure!Active' # {}
                        /\ Updaters \cap Exposure!Active' = {}
                        /\ \A r \in Modifiers \cap Exposure!Active' : Halfway(r)' /\ FlagWaits(want[r])'
        BY <1>2 DEF ExposureCalm
    <2>1. \A s, r \in Exposure!Active : Exposure!Compatible(s, r)
        BY DEF ExposureInv, ExposureCalm
    <2>2. \A s, r \in Exposure!Active' : Exposure!Compatible(s, r)'
        BY <1>2, <1>6, <2>1 DEF Exposure!Compatible
    <2>3. Updaters \cap Exposure!Active = {}
        BY <1>0, <1>6, <2>1 DEF Exposure!Compatible
    <2>4. \A r \in Modifiers \cap Exposure!Active : want[r] = want[q] /\ Halfway(r) /\ FlagWaits(want[q])
        BY <1>0, <1>6, <2>1 DEF ExposureInv, ExposureCalm, Exposure!Compatible, SaneExposure
    <2>5. \A r \in Modifiers \cap Exposure!Active' : Halfway(r)' /\ FlagWaits(want[r])'
        BY <1>2, <1>6, <1>10, <1>11, <2>4 DEF FlagWaits
    <2> QED BY <1>6, <2>2, <2>3, <2>5
<1>15. ExposureAlone'
    <2> SUFFICES ASSUME NEW r \in alone
                 PROVE  /\ \A s \in alone \cup Exposure!Active : s = r
                        /\ Halfway(r)'
                        /\ pc'[r] # "done"
        BY <1>2, <1>6 DEF ExposureAlone
    <2>1. r = q /\ \A s \in alone \cup Exposure!Active : s = r
        BY <1>6 DEF ExposureInv, ExposureAlone
    <2>2. Halfway(q)
        BY <1>1, <2>1 DEF ExposureInv, ExposureAlone
    <2> QED BY <1>5, <1>10, <2>1, <2>2
<1>16. ExposureAgree'
    <2> SUFFICES ASSUME NEW w \in {"expose", "hide"}, Exposure!AllWant(w)
                 PROVE  /\ FlagWaits(w)'
                        /\ \A r \in Modifiers : pc'[r] \in {"perms", "save"} => Halfway(r)'
                        /\ \A u \in Updaters : pc'[u] = "save" =>
                               /\ w = "expose" /\ inst'[u] => granted' = Exposure!AllPerms
                               /\ w = "hide" /\ ~ inst'[u] => granted' = {}
        BY <1>2 DEF ExposureAgree, Exposure!AllWant, FlagWaits
    <2>1. want[q] = w /\ \A r \in Modifiers : want[r] = w
        BY DEF Exposure!AllWant
    <2>2. FlagWaits(w)
        BY DEF ExposureInv, ExposureAgree
    <2>3. FlagWaits(w)'
        BY <1>2, <1>9, <2>1, <2>2 DEF FlagWaits
    <2>4. \A r \in Modifiers : pc'[r] \in {"perms", "save"} => Halfway(r)'
        <3>1. \A r \in Modifiers : pc'[r] \in {"perms", "save"} => pc[r] \in {"perms", "save"}
            BY <1>1, <1>5 DEF Exposure!Requests
        <3>2. \A r \in Modifiers : pc[r] \in {"perms", "save"} => Halfway(r)
            BY DEF ExposureInv, ExposureAgree
        <3> QED BY <1>10, <2>1, <3>1, <3>2
    <2>5. \A u \in Updaters : pc'[u] = "save" =>
              /\ w = "expose" /\ inst'[u] => granted' = Exposure!AllPerms
              /\ w = "hide" /\ ~ inst'[u] => granted' = {}
        <3>1. \A u \in Updaters : pc'[u] = pc[u] /\ inst'[u] = inst[u]
            BY <1>0, <1>2, <1>5 DEF Exposure!Requests
        <3>2. \A u \in Updaters : pc[u] = "save" =>
                  /\ w = "expose" /\ inst[u] => granted = Exposure!AllPerms
                  /\ w = "hide" /\ ~ inst[u] => granted = {}
            BY DEF ExposureInv, ExposureAgree
        <3>3. /\ w = "expose" /\ granted = Exposure!AllPerms => granted' = Exposure!AllPerms
              /\ w = "hide" /\ granted = {} => granted' = {}
            BY <1>2, <1>9, <2>1
        <3> QED BY <3>1, <3>2, <3>3
    <2> QED BY <2>3, <2>4, <2>5
<1> QED BY <1>12, <1>13, <1>14, <1>15, <1>16 DEF ExposureInv

\* A request that ends with its save, or with the save refused.
LEMMA SaveEnds ==
    ASSUME SaneExposure, ExposureInv, NEW q \in Exposure!Requests, pc[q] = "save",
           NEW l \in {"done", "failed"}, Exposure!Goto(q, l), calm' \in BOOLEAN, stray' \in BOOLEAN,
           is_exposed' \in BOOLEAN,
           UNCHANGED <<granted, want, inst, next, strays, alone>>
    PROVE  /\ Exposure!TypeOK' /\ Untouched'
           /\ pc'[q] = l /\ \A r \in Exposure!Requests \ {q} : pc'[r] = pc[r]
           /\ q \in Exposure!Active /\ Exposure!Active' = Exposure!Active \ {q}
           /\ \A r \in Modifiers : Halfway(r)' <=> Halfway(r)
<1>1. /\ pc' = [pc EXCEPT ![q] = l] /\ pc'[q] = l /\ \A r \in Exposure!Requests \ {q} : pc'[r] = pc[r]
    BY DEF Exposure!Goto, ExposureInv, Exposure!TypeOK
<1>2. q \in Exposure!Active /\ Exposure!Active' = Exposure!Active \ {q}
    BY <1>1 DEF Exposure!Active
<1>3. pc' \in [Exposure!Requests -> {"start", "perms", "save", "done", "failed"}]
    BY <1>1 DEF ExposureInv, Exposure!TypeOK
<1>4. \A r \in Modifiers : pc'[r] \in {"perms", "save", "start"} => pc'[r] = pc[r]
    BY <1>1 DEF Exposure!Requests
<1>5. \A u \in Updaters : pc'[u] # "perms"
    BY <1>1 DEF ExposureInv, Untouched, Exposure!Requests
<1>6. Exposure!TypeOK'
    BY <1>3, <1>4 DEF ExposureInv, Exposure!TypeOK
<1>7. Untouched'
    BY <1>4, <1>5 DEF ExposureInv, Untouched
<1>8. \A r \in Modifiers : Halfway(r)' <=> Halfway(r)
    BY DEF Halfway, Changed
<1> QED BY <1>1, <1>2, <1>6, <1>7, <1>8

LEMMA RefusedKeeps ==
    ASSUME SaneExposure, ExposureInv, NEW q \in Exposure!Requests, pc[q] = "save", Exposure!Refused(q),
           UNCHANGED <<granted, want, inst, next, strays, alone>>
    PROVE  ExposureInv'
<1>1. /\ Exposure!TypeOK' /\ Untouched'
      /\ pc'[q] = "failed" /\ \A r \in Exposure!Requests \ {q} : pc'[r] = pc[r]
      /\ q \in Exposure!Active /\ Exposure!Active' = Exposure!Active \ {q}
      /\ \A r \in Modifiers : Halfway(r)' <=> Halfway(r)
      /\ UNCHANGED is_exposed /\ calm' = FALSE
    BY SaveEnds DEF Exposure!Refused, ExposureInv, Exposure!TypeOK
<1>2. ExposureCalm'
    BY <1>1 DEF ExposureCalm
<1>3. ExposureAlone'
    <2> SUFFICES ASSUME NEW r \in alone
                 PROVE  (\A s \in alone \cup Exposure!Active' : s = r) /\ pc'[r] = "failed"
        BY DEF ExposureAlone
    <2> QED BY <1>1 DEF ExposureInv, ExposureAlone
<1>4. ExposureAgree'
    <2>1. \A r \in Exposure!Requests : pc'[r] # "failed" => pc'[r] = pc[r]
        BY <1>1
    <2>2. \A w : Exposure!AllWant(w)' = Exposure!AllWant(w) /\ FlagWaits(w)' = FlagWaits(w)
        BY <1>1 DEF Exposure!AllWant, FlagWaits
    <2> QED BY <1>1, <2>1, <2>2 DEF ExposureInv, ExposureAgree, Exposure!Requests
<1> QED BY <1>1, <1>2, <1>3, <1>4 DEF ExposureInv

LEMMA SaveModifyKeeps ==
    ASSUME SaneExposure, ExposureInv, NEW q \in Modifiers, Exposure!SaveModify(q)
    PROVE  ExposureInv'
<1>0. /\ q \in Exposure!Requests /\ q \notin Updaters /\ pc[q] = "save"
      /\ UNCHANGED <<granted, want, inst, next, strays, alone>>
      /\ want[q] \in {"expose", "hide"}
    BY DEF Exposure!Requests, SaneExposure, Exposure!SaveModify, ExposureInv, Exposure!TypeOK
<1>1. CASE Exposure!Refused(q)
    BY <1>0, <1>1, RefusedKeeps
<1>2. CASE ~ Exposure!Refused(q)
    <2>1. /\ is_exposed' = (want[q] = "expose") /\ Exposure!Goto(q, "done") /\ UNCHANGED <<stray, calm>>
        BY <1>2 DEF Exposure!SaveModify
    <2>2. /\ Exposure!TypeOK' /\ Untouched'
          /\ pc'[q] = "done" /\ \A r \in Exposure!Requests \ {q} : pc'[r] = pc[r]
          /\ q \in Exposure!Active /\ Exposure!Active' = Exposure!Active \ {q}
          /\ \A r \in Modifiers : Halfway(r)' <=> Halfway(r)
        BY <1>0, <2>1, SaveEnds DEF ExposureInv, Exposure!TypeOK
    <2>3. Changed(q) = Exposure!AllPerms /\ granted \subseteq Exposure!AllPerms
        BY <1>0, PermsAreThree, ChangedAll DEF ExposureInv, Exposure!TypeOK
    <2>4. Halfway(q) => /\ granted = Grants(want[q] = "expose")
                        /\ FlagWaits(want[q])'
        BY <1>0, <2>1, <2>3 DEF Halfway, Grants, FlagWaits
    <2>5. ExposureCalm'
        <3> SUFFICES ASSUME calm
                     PROVE  /\ \A s, r \in Exposure!Active' : Exposure!Compatible(s, r)'
                            /\ granted' = Grants(is_exposed')
                            /\ Updaters \cap Exposure!Active' = {}
                            /\ \A r \in Modifiers \cap Exposure!Active' : Halfway(r)' /\ FlagWaits(want[r])'
            BY <2>1 DEF ExposureCalm, Grants
        <3>1. \A s, r \in Exposure!Active : Exposure!Compatible(s, r)
            BY DEF ExposureInv, ExposureCalm
        <3>2. \A s, r \in Exposure!Active' : Exposure!Compatible(s, r)'
            BY <1>0, <2>2, <3>1 DEF Exposure!Compatible
        <3>3. Halfway(q)
            BY <2>2 DEF ExposureInv, ExposureCalm
        <3>4. Updaters \cap Exposure!Active = {}
            BY <1>0, <2>2, <3>1 DEF Exposure!Compatible
        <3>5. \A r \in Modifiers \cap Exposure!Active : want[r] = want[q] /\ Halfway(r)
            BY <1>0, <2>2, <3>1 DEF ExposureInv, ExposureCalm, Exposure!Compatible, SaneExposure
        <3>6. granted' = Grants(is_exposed')
            BY <1>0, <2>1, <2>4, <3>3
        <3>7. \A r \in Modifiers \cap Exposure!Active' : Halfway(r)' /\ FlagWaits(want[r])'
            BY <1>0, <2>2, <2>4, <3>3, <3>5 DEF FlagWaits
        <3> QED BY <2>2, <3>2, <3>4, <3>6, <3>7
    <2>6. ExposureAlone'
        <3> SUFFICES ASSUME NEW r \in alone
                     PROVE  /\ \A s \in alone \cup Exposure!Active' : s = r
                            /\ pc'[r] = "done"
                            /\ is_exposed' = (want'[r] = "expose")
                            /\ granted' = Grants(is_exposed')
            BY <1>0 DEF ExposureAlone, Grants
        <3>1. r = q /\ \A s \in alone \cup Exposure!Active : s = r
            BY <2>2 DEF ExposureInv, ExposureAlone
        <3>2. Halfway(q)
            BY <1>0, <3>1 DEF ExposureInv, ExposureAlone
        <3> QED BY <1>0, <2>1, <2>2, <2>4, <3>1, <3>2
    <2>7. ExposureAgree'
        <3> SUFFICES ASSUME NEW w \in {"expose", "hide"}, Exposure!AllWant(w)
                     PROVE  /\ FlagWaits(w)'
                            /\ \A r \in Modifiers : pc'[r] \in {"perms", "save"} => Halfway(r)'
                            /\ \A u \in Updaters : pc'[u] = "save" =>
                                   /\ w = "expose" /\ inst'[u] => granted' = Exposure!AllPerms
                                   /\ w = "hide" /\ ~ inst'[u] => granted' = {}
            BY <1>0 DEF ExposureAgree, Exposure!AllWant, FlagWaits
        <3>1. want[q] = w /\ Halfway(q)
            BY <1>0 DEF Exposure!AllWant, ExposureInv, ExposureAgree
        <3>2. FlagWaits(w)'
            BY <1>0, <2>4, <3>1 DEF FlagWaits
        <3>3. \A r \in Modifiers : pc'[r] \in {"perms", "save"} => Halfway(r)'
            BY <2>2 DEF ExposureInv, ExposureAgree, Exposure!Requests
        <3>4. \A u \in Updaters : pc'[u] = "save" =>
                  /\ w = "expose" /\ inst'[u] => granted' = Exposure!AllPerms
                  /\ w = "hide" /\ ~ inst'[u] => granted' = {}
            BY <1>0, <2>2 DEF ExposureInv, ExposureAgree, Exposure!Requests
        <3> QED BY <3>2, <3>3, <3>4
    <2> QED BY <2>2, <2>5, <2>6, <2>7 DEF ExposureInv
<1> QED BY <1>1, <1>2

LEMMA SaveUpdateKeeps ==
    ASSUME SaneExposure, ExposureInv, NEW q \in Updaters, Exposure!SaveUpdate(q)
    PROVE  ExposureInv'
<1>0. /\ q \in Exposure!Requests /\ q \notin Modifiers /\ pc[q] = "save"
      /\ UNCHANGED <<granted, want, inst, next, strays, alone>>
      /\ inst[q] \in BOOLEAN
    BY DEF Exposure!Requests, SaneExposure, Exposure!SaveUpdate, ExposureInv, Exposure!TypeOK
<1>1. CASE Exposure!Refused(q)
    BY <1>0, <1>1, RefusedKeeps
<1>2. CASE ~ Exposure!Refused(q)
    <2>1. /\ is_exposed' = inst[q] /\ Exposure!Goto(q, "done") /\ UNCHANGED <<stray, calm>>
        BY <1>2 DEF Exposure!SaveUpdate
    <2>2. /\ Exposure!TypeOK' /\ Untouched'
          /\ pc'[q] = "done" /\ \A r \in Exposure!Requests \ {q} : pc'[r] = pc[r]
          /\ q \in Exposure!Active /\ Exposure!Active' = Exposure!Active \ {q}
          /\ \A r \in Modifiers : Halfway(r)' <=> Halfway(r)
        BY <1>0, <2>1, SaveEnds DEF ExposureInv, Exposure!TypeOK
    <2>3. ExposureCalm'
        <3> SUFFICES ASSUME calm
                     PROVE  /\ \A s, r \in Exposure!Active' : Exposure!Compatible(s, r)'
                            /\ granted' = Grants(is_exposed')
                            /\ \A u \in Updaters \cap Exposure!Active' : inst'[u] = is_exposed'
                            /\ Modifiers \cap Exposure!Active' = {}
            BY <2>1 DEF ExposureCalm, Grants
        <3>1. \A s, r \in Exposure!Active : Exposure!Compatible(s, r)
            BY DEF ExposureInv, ExposureCalm
        <3>2. \A s, r \in Exposure!Active' : Exposure!Compatible(s, r)'
            BY <1>0, <2>2, <3>1 DEF Exposure!Compatible
        <3>3. Modifiers \cap Exposure!Active = {}
            BY <2>2, <3>1 DEF Exposure!Compatible, SaneExposure
        <3>4. /\ inst[q] = is_exposed /\ granted = Grants(is_exposed)
              /\ \A u \in Updaters \cap Exposure!Active : inst[u] = is_exposed
            BY <2>2 DEF ExposureInv, ExposureCalm
        <3> QED BY <1>0, <2>1, <2>2, <3>2, <3>3, <3>4
    <2>4. ExposureAlone'
        <3> SUFFICES ASSUME NEW r \in alone
                     PROVE  /\ \A s \in alone \cup Exposure!Active' : s = r
                            /\ r \notin Modifiers
            BY <1>0 DEF ExposureAlone
        <3> QED BY <1>0, <2>2 DEF ExposureInv, ExposureAlone
    <2>5. ExposureAgree'
        <3> SUFFICES ASSUME NEW w \in {"expose", "hide"}, Exposure!AllWant(w)
                     PROVE  /\ FlagWaits(w)'
                            /\ \A r \in Modifiers : pc'[r] \in {"perms", "save"} => Halfway(r)'
                            /\ \A u \in Updaters : pc'[u] = "save" =>
                                   /\ w = "expose" /\ inst'[u] => granted' = Exposure!AllPerms
                                   /\ w = "hide" /\ ~ inst'[u] => granted' = {}
            BY <1>0 DEF ExposureAgree, Exposure!AllWant, FlagWaits
        <3>1. /\ w = "expose" /\ inst[q] => granted = Exposure!AllPerms
              /\ w = "hide" /\ ~ inst[q] => granted = {}
            BY <1>0 DEF ExposureInv, ExposureAgree
        <3>2. FlagWaits(w)'
            BY <1>0, <2>1, <3>1 DEF FlagWaits
        <3>3. \A r \in Modifiers : pc'[r] \in {"perms", "save"} => Halfway(r)'
            BY <1>0, <2>2 DEF ExposureInv, ExposureAgree, Exposure!Requests
        <3>4. \A u \in Updaters : pc'[u] = "save" =>
                  /\ w = "expose" /\ inst'[u] => granted' = Exposure!AllPerms
                  /\ w = "hide" /\ ~ inst'[u] => granted' = {}
            BY <1>0, <2>2 DEF ExposureInv, ExposureAgree, Exposure!Requests
        <3> QED BY <3>2, <3>3, <3>4
    <2> QED BY <2>2, <2>3, <2>4, <2>5 DEF ExposureInv
<1> QED BY <1>1, <1>2

LEMMA StrayKeeps == ASSUME SaneExposure, ExposureInv, Exposure!Stray \/ UNCHANGED Exposure!vars PROVE ExposureInv'
<1>1. /\ UNCHANGED <<is_exposed, granted, pc, want, inst, next, alone, calm>>
      /\ stray' \in BOOLEAN /\ strays' \in 0 .. MaxStrays
    <2>1. CASE Exposure!Stray
        <3>1. strays' \in 0 .. MaxStrays
            BY <2>1 DEF Exposure!Stray, ExposureInv, Exposure!TypeOK, SaneExposure
        <3> QED BY <2>1, <3>1 DEF Exposure!Stray
    <2>2. CASE UNCHANGED Exposure!vars
        BY <2>2 DEF Exposure!vars, ExposureInv, Exposure!TypeOK
    <2> QED BY <2>1, <2>2
<1>2. Exposure!Active' = Exposure!Active
    BY <1>1 DEF Exposure!Active
<1>3. Exposure!TypeOK' /\ Untouched'
    BY <1>1 DEF ExposureInv, Exposure!TypeOK, Untouched
<1>4. /\ \A r \in Modifiers : Halfway(r)' = Halfway(r)
      /\ \A w : FlagWaits(w)' = FlagWaits(w) /\ Exposure!AllWant(w)' = Exposure!AllWant(w)
      /\ \A q, r \in Exposure!Requests : Exposure!Compatible(q, r)' = Exposure!Compatible(q, r)
    BY <1>1 DEF Halfway, Changed, FlagWaits, Exposure!AllWant, Exposure!Compatible
<1>5. ExposureCalm'
    <2> SUFFICES ASSUME calm
                 PROVE  /\ \A q, r \in Exposure!Active : Exposure!Compatible(q, r)'
                        /\ Exposure!Active = {} => granted = Grants(is_exposed)
                        /\ \A u \in Updaters \cap Exposure!Active : /\ inst[u] = is_exposed
                                                                    /\ granted = Grants(is_exposed)
                        /\ \A r \in Modifiers \cap Exposure!Active : Halfway(r)' /\ FlagWaits(want[r])
        BY <1>1, <1>2, <1>4 DEF ExposureCalm, Grants, FlagWaits
    <2> QED BY <1>4 DEF ExposureInv, ExposureCalm, Exposure!Active
<1>6. ExposureAlone'
    BY <1>1, <1>2, <1>4 DEF ExposureInv, ExposureAlone, Grants
<1>7. ExposureAgree'
    BY <1>1, <1>4 DEF ExposureInv, ExposureAgree
<1> QED BY <1>3, <1>5, <1>6, <1>7 DEF ExposureInv

LEMMA ExposureStep == ASSUME SaneExposure, ExposureInv, [Exposure!Next]_Exposure!vars PROVE ExposureInv'
<1>1. ASSUME NEW r \in Modifiers, Exposure!StartModify(r) PROVE ExposureInv'
    <2>1. /\ Exposure!Start(r) /\ Exposure!Goto(r, IF Exposure!Acts(r, is_exposed) THEN "perms" ELSE "done")
          /\ UNCHANGED <<is_exposed, granted, want, next, stray, strays>>
          /\ r \in Exposure!Requests /\ r \notin Updaters
        BY <1>1 DEF Exposure!StartModify, Exposure!LoadModify, Exposure!Requests, SaneExposure
    <2>2. CASE Exposure!Acts(r, is_exposed)
        BY <2>1, <2>2, RequestStartKeeps
    <2>3. CASE ~ Exposure!Acts(r, is_exposed)
        BY <2>1, <2>3, RequestStartKeeps
    <2> QED BY <2>2, <2>3
<1>2. ASSUME NEW r \in Updaters, Exposure!StartUpdate(r) PROVE ExposureInv'
    BY <1>2, RequestStartKeeps DEF Exposure!StartUpdate, Exposure!Requests, SaneExposure
<1> QED BY <1>1, <1>2, ChangePermKeeps, SaveModifyKeeps, SaveUpdateKeeps, StrayKeeps
        DEF Exposure!Next, Exposure!Modify, Exposure!Update

LEMMA InvKeepsFlag == ExposureInv => Exposure!FlagIsTrue
<1> SUFFICES ASSUME ExposureInv PROVE Exposure!FlagIsTrue
    OBVIOUS
<1>1. Exposure!TypeOK
    BY DEF ExposureInv
<1>2. Exposure!CalmKeepsFlag
    BY DEF ExposureInv, ExposureCalm, Exposure!CalmKeepsFlag, Exposure!FlagTracksPermissions, Grants
<1>3. Exposure!RunAloneRepairs
    BY DEF ExposureInv, ExposureAlone, Exposure!RunAloneRepairs, Grants
<1> QED BY <1>1, <1>2, <1>3 DEF Exposure!FlagIsTrue

LEMMA InvKeepsOrder == ExposureInv => Exposure!FlagComesLast
BY DEF ExposureInv, ExposureAgree, FlagWaits, Exposure!FlagComesLast

-----------------------------------------------------------------------------
(* Signoff.                                                                *)

SaneSigning == None \notin Users /\ None \notin Signing!Labels

-----------------------------------------------------------------------------
(* The inductive invariant.                                                *)

SignoffKinds == {"post", "put", "delete"}

\* Each step belongs to some kinds of request.
StepOfKind ==
    \A w \in Workers :
        /\ pc[w] = "idle" <=> op[w] = Signing!NoOp
        /\ op[w].kind = "postLabel" => pc[w] = "add"
        /\ op[w].kind = "deleteLabel" => pc[w] = "remove"
        /\ op[w].kind \in SignoffKinds => op[w].status \in Signing!Statuses
        /\ pc[w] \in {"row", "find"} => op[w].kind \in SignoffKinds
        /\ pc[w] = "look" => op[w].kind = "put"

Matches == IF signoff = None THEN Signing!Applied \subseteq {Signing!Req} ELSE Signing!Applied = {signoff}

\* The requests about the label that requests a signoff only run while there is none.
Requesting == signoff = None /\ Signing!Applied \subseteq {Signing!Req}

\* One of the requests that overlap makes the row, and it alone goes on.
Posting(w) ==
    pc[w] # "row" =>
        /\ signoff = op[w].status
        /\ Signing!Applied \subseteq {Signing!Req}
        /\ pc[w] = "remove" => inst[w].labelling \/ Signing!Req \notin Signing!Applied
        /\ pc[w] = "add" => Signing!Applied = {}
        /\ \A v \in Signing!Active \ {w} : pc[v] = "row"

\* Requests to change the status to the same one: the label of the old status is taken off
\* before the label of the new one is put on, whoever does which.
Putting(w) ==
    LET s == op[w].status
        o == Signing!Opposite(op[w].status)
    IN  /\ inst[w].signoff
        /\ signoff \in {s, o} /\ (pc[w] # "row" => signoff = s)
        /\ Signing!Applied \subseteq {s, o} /\ ~ ({s, o} \subseteq Signing!Applied)
        /\ pc[w] = "remove" => inst[w].labelling \/ o \notin Signing!Applied
        /\ pc[w] \in {"look", "add"} => o \notin Signing!Applied

\* Requests to delete the signoff: the same for the label of its status and the label that
\* requests another.
Deleting(w) ==
    LET s == op[w].status
    IN  /\ signoff \in {s, None}
        /\ pc[w] # "row" \/ ~ inst[w].signoff => signoff = None
        /\ Signing!Applied \subseteq {s, Signing!Req} /\ ~ ({s, Signing!Req} \subseteq Signing!Applied)
        /\ pc[w] = "remove" => inst[w].labelling \/ s \notin Signing!Applied
        /\ pc[w] = "add" => s \notin Signing!Applied
        /\ \A v \in Signing!Active : op[v].status = s

Work(w) ==
    /\ op[w].kind \in {"postLabel", "deleteLabel"} => Requesting
    /\ op[w].kind = "post" => Posting(w)
    /\ op[w].kind = "put" => Putting(w)
    /\ op[w].kind = "delete" => Deleting(w)

SignCalm ==
     calm => /\ \A v, w \in Signing!Active : Signing!Compatible(op[v], op[w])
             /\ (\A v \in Signing!Active : pc[v] = "row") => Matches
             /\ \A w \in Signing!Active : Work(w)

\* What a change of the status that no other request overlaps has done.
SignAlone ==
     \A w \in alone :
         /\ Signing!Active = {w}
         /\ op[w].kind = "put" =>
                /\ pc[w] # "row" => signoff = op[w].status
                /\ pc[w] = "remove" => inst[w].labelling \/ Signing!Out(w) \notin Signing!Applied
                /\ pc[w] \in {"look", "add"} => Signing!Out(w) \notin Signing!Applied

SignInv == Signing!TypeOK /\ StepOfKind /\ SignCalm /\ SignAlone

-----------------------------------------------------------------------------
LEMMA SignNames == /\ Signing!Statuses = {"OK", "NO"} /\ Signing!Req = "REQ" /\ Signing!Labels = {"OK", "NO", "REQ"}
                   /\ \A s \in Signing!Statuses : /\ Signing!Opposite(s) \in Signing!Statuses /\ Signing!Opposite(s) # s
                                                  /\ Signing!Opposite(Signing!Opposite(s)) = s
                                                  /\ s # Signing!Req /\ Signing!Opposite(s) # Signing!Req
                                                  /\ Signing!Statuses = {s, Signing!Opposite(s)}
BY DEF Signing!Statuses, Signing!Req, Signing!Labels, Signing!Opposite

LEMMA ActiveTypes ==
    ASSUME SignInv, NEW w \in Signing!Active
    PROVE  /\ w \in Workers /\ op[w] \in Signing!Op /\ pc[w] # "idle"
           /\ op[w].kind \in Signing!Kinds /\ op[w].user \in Users
           /\ op[w].kind \in SignoffKinds =>
                  op[w].status \in Signing!Statuses /\ Signing!Out(w) \in Signing!Labels /\ Signing!In(w) \in Signing!Labels
           /\ op[w].kind = "post" => Signing!Out(w) = Signing!Req /\ Signing!In(w) = op[w].status
           /\ op[w].kind = "put" => Signing!Out(w) = Signing!Opposite(op[w].status) /\ Signing!In(w) = op[w].status
           /\ op[w].kind = "delete" => Signing!Out(w) = op[w].status /\ Signing!In(w) = Signing!Req
           /\ op[w].kind = "deleteLabel" => Signing!Out(w) = Signing!Req
           /\ op[w].kind = "postLabel" => Signing!In(w) = Signing!Req
<1>1. w \in Workers /\ pc[w] # "idle" /\ op[w] \in Signing!Op
    BY DEF Signing!Active, SignInv, Signing!TypeOK, StepOfKind
<1>2. op[w].kind \in Signing!Kinds /\ op[w].user \in Users
    BY <1>1 DEF Signing!Op
<1>3. op[w].kind \in SignoffKinds => op[w].status \in Signing!Statuses
    BY <1>1 DEF SignInv, StepOfKind
<1>4. /\ op[w].kind = "post" => Signing!Out(w) = Signing!Req /\ Signing!In(w) = op[w].status
      /\ op[w].kind = "put" => Signing!Out(w) = Signing!Opposite(op[w].status) /\ Signing!In(w) = op[w].status
      /\ op[w].kind = "delete" => Signing!Out(w) = op[w].status /\ Signing!In(w) = Signing!Req
      /\ op[w].kind = "deleteLabel" => Signing!Out(w) = Signing!Req
      /\ op[w].kind = "postLabel" => Signing!In(w) = Signing!Req
    BY DEF Signing!Out, Signing!In
<1>5. op[w].kind \in SignoffKinds => Signing!Out(w) \in Signing!Labels /\ Signing!In(w) \in Signing!Labels
    BY <1>3, <1>4, SignNames DEF SignoffKinds
<1> QED BY <1>1, <1>2, <1>3, <1>4, <1>5

LEMMA PutsLabel ==
    ASSUME SaneSigning, Signing!TypeOK, NEW l \in Signing!Labels, NEW u \in Users,
           labelling' = [labelling EXCEPT ![l] = IF @ = None THEN u ELSE @]
    PROVE  labelling' \in [Signing!Labels -> Users \cup {None}] /\ Signing!Applied' = Signing!Applied \cup {l}
<1>1. labelling \in [Signing!Labels -> Users \cup {None}] /\ u # None
    BY DEF Signing!TypeOK, SaneSigning
<1> QED BY <1>1 DEF Signing!Applied

LEMMA TakesLabel ==
    ASSUME Signing!TypeOK, NEW l \in Signing!Labels, Signing!TakeOff(l)
    PROVE  /\ labelling' \in [Signing!Labels -> Users \cup {None}] /\ Signing!Applied' = Signing!Applied \ {l}
           /\ inst' \in [Workers -> [signoff : BOOLEAN, labelling : BOOLEAN]]
           /\ \A v \in Workers : /\ inst'[v].signoff = inst[v].signoff
                                 /\ inst'[v].labelling = (inst[v].labelling /\ Signing!Out(v) # l)
<1>1. /\ labelling \in [Signing!Labels -> Users \cup {None}]
      /\ \A v \in Workers : inst[v] \in [signoff : BOOLEAN, labelling : BOOLEAN]
    BY DEF Signing!TypeOK
<1>2. labelling' \in [Signing!Labels -> Users \cup {None}] /\ Signing!Applied' = Signing!Applied \ {l}
    BY <1>1 DEF Signing!TakeOff, Signing!Applied
<1>3. inst' = [v \in Workers |-> [inst[v] EXCEPT !.labelling = inst[v].labelling /\ Signing!Out(v) # l]]
    BY DEF Signing!TakeOff
<1>4. ASSUME NEW v \in Workers
      PROVE  /\ inst'[v].signoff = inst[v].signoff
             /\ inst'[v].labelling = (inst[v].labelling /\ Signing!Out(v) # l)
             /\ inst'[v] \in [signoff : BOOLEAN, labelling : BOOLEAN]
    <2> DEFINE b == (inst[v].labelling /\ Signing!Out(v) # l)
    <2>1. inst'[v] = [inst[v] EXCEPT !.labelling = b] /\ b \in BOOLEAN
        BY <1>3
    <2> HIDE DEF b
    <2>2. /\ inst'[v].signoff = inst[v].signoff /\ inst'[v].labelling = b
          /\ inst'[v] \in [signoff : BOOLEAN, labelling : BOOLEAN]
        BY <1>1, <2>1
    <2> QED BY <2>2 DEF b
<1> QED BY <1>2, <1>3, <1>4

LEMMA SignInit == ASSUME SaneSigning PROVE Signing!Init => SignInv
<1> SUFFICES ASSUME SaneSigning, Signing!Init PROVE SignInv
    OBVIOUS
<1> USE DEF Signing!Init
<1>1. Signing!Active = {} /\ Signing!Applied = {}
    BY DEF Signing!Active, Signing!Applied
<1>2. Signing!TypeOK
    BY <1>1 DEF Signing!TypeOK, Signing!NoOp, Signing!NoInst
<1>3. StepOfKind
    BY DEF StepOfKind, Signing!NoOp, SignoffKinds
<1>4. SignCalm
    BY <1>1 DEF SignCalm, Matches
<1>5. SignAlone
    BY DEF SignAlone
<1> QED BY <1>2, <1>3, <1>4, <1>5 DEF SignInv

-----------------------------------------------------------------------------
(* The types.                                                              *)

\* The columns and the instances.
DataTypes ==
    /\ signoff \in Signing!Statuses \cup {None}
    /\ labelling \in [Signing!Labels -> Users \cup {None}]
    /\ inst \in [Workers -> [signoff : BOOLEAN, labelling : BOOLEAN]]

LEMMA GoesOn ==
    ASSUME SignInv, NEW q \in Signing!Active, NEW st \in {"find", "remove", "look", "add"},
           op[q].kind \in SignoffKinds, st = "look" => op[q].kind = "put",
           Signing!Goto(q, st), UNCHANGED <<op, alone, calm>>, DataTypes',
           \A w \in Workers : inst'[w].labelling =>
               (IF w = q THEN st = "remove" ELSE pc[w] = "remove") /\ Signing!Out(w) \in Signing!Applied'
    PROVE  /\ Signing!TypeOK' /\ StepOfKind' /\ Signing!Active' = Signing!Active
           /\ pc'[q] = st /\ \A w \in Workers \ {q} : pc'[w] = pc[w]
<1>1. /\ q \in Workers /\ pc' = [pc EXCEPT ![q] = st]
      /\ pc'[q] = st /\ \A w \in Workers \ {q} : pc'[w] = pc[w]
    BY DEF Signing!Goto, SignInv, Signing!TypeOK, Signing!Active
<1>2. Signing!Active' = Signing!Active
    BY <1>1 DEF Signing!Active
<1>3. \A w \in Workers : Signing!Out(w)' = Signing!Out(w) /\ Signing!In(w)' = Signing!In(w)
    BY DEF Signing!Out, Signing!In
<1>4. Signing!TypeOK'
    <2>1. pc' \in [Workers -> {"idle", "row", "find", "remove", "look", "add"}]
        BY <1>1 DEF SignInv, Signing!TypeOK
    <2>2. /\ \A w \in Workers : op'[w].kind \in {"post", "put", "delete"} => Signing!Out(w)' # Signing!In(w)'
          /\ \A w \in Workers : inst'[w].labelling => pc'[w] = "remove" /\ Signing!Out(w)' \in Signing!Applied'
        BY <1>1, <1>3 DEF SignInv, Signing!TypeOK
    <2> QED BY <1>2, <2>1, <2>2 DEF SignInv, Signing!TypeOK, DataTypes
<1>5. StepOfKind'
    <2>1. op[q] # Signing!NoOp
        BY <1>1 DEF SignInv, StepOfKind, Signing!Active
    <2>2. op[q].kind \notin {"postLabel", "deleteLabel"}
        BY DEF SignoffKinds
    <2> QED BY <1>1, <2>1, <2>2 DEF SignInv, StepOfKind
<1> QED BY <1>1, <1>2, <1>4, <1>5

LEMMA Ends ==
    ASSUME SaneSigning, SignInv, NEW q \in Signing!Active, Signing!Respond(q), calm' \in BOOLEAN, DataTypes',
           \A w \in Workers : inst'[w].labelling =>
               w # q /\ pc[w] = "remove" /\ Signing!Out(w) \in Signing!Applied'
    PROVE  /\ Signing!TypeOK' /\ StepOfKind' /\ SignAlone' /\ Signing!Active' = Signing!Active \ {q}
           /\ \A w \in Workers \ {q} : pc'[w] = pc[w] /\ op'[w] = op[w]
<1>1. /\ q \in Workers /\ pc' = [pc EXCEPT ![q] = "idle"] /\ op' = [op EXCEPT ![q] = Signing!NoOp]
      /\ alone' = alone \ {q}
    BY DEF Signing!Respond, Signing!Goto, Signing!Active
<1>2. /\ pc'[q] = "idle" /\ op'[q] = Signing!NoOp
      /\ \A w \in Workers \ {q} : pc'[w] = pc[w] /\ op'[w] = op[w]
    BY <1>1 DEF SignInv, Signing!TypeOK
<1>3. Signing!Active' = Signing!Active \ {q}
    BY <1>1, <1>2 DEF Signing!Active
<1>4. alone' = {}
    BY <1>1 DEF SignInv, SignAlone
<1>5. \A w \in Workers \ {q} : Signing!Out(w)' = Signing!Out(w) /\ Signing!In(w)' = Signing!In(w)
    BY <1>2 DEF Signing!Out, Signing!In
<1>6. Signing!TypeOK'
    <2>1. /\ pc' \in [Workers -> {"idle", "row", "find", "remove", "look", "add"}]
          /\ op' \in [Workers -> Signing!Op \cup {Signing!NoOp}]
        BY <1>1 DEF SignInv, Signing!TypeOK
    <2>2. \A w \in Workers : op'[w].kind \in {"post", "put", "delete"} => Signing!Out(w)' # Signing!In(w)'
        BY <1>2, <1>5 DEF SignInv, Signing!TypeOK, Signing!NoOp
    <2>3. \A w \in Workers : inst'[w].labelling => pc'[w] = "remove" /\ Signing!Out(w)' \in Signing!Applied'
        BY <1>2, <1>5
    <2> QED BY <1>4, <2>1, <2>2, <2>3 DEF Signing!TypeOK, DataTypes
<1>7. StepOfKind'
    <2>1. /\ Signing!NoOp.kind \notin SignoffKinds \cup {"postLabel", "deleteLabel"}
        BY DEF Signing!NoOp, SignoffKinds
    <2> QED BY <1>2, <2>1 DEF SignInv, StepOfKind
<1> QED BY <1>2, <1>3, <1>4, <1>6, <1>7 DEF SignAlone

-----------------------------------------------------------------------------
(* Calm.                                                                   *)

\* Requests that overlap are of one kind.
LEMMA SameKind ==
    ASSUME SignInv, calm, NEW q \in Signing!Active, NEW v \in Signing!Active
    PROVE  /\ op[q].kind \in SignoffKinds => op[v].kind = op[q].kind
           /\ op[q].kind = "put" => op[v].status = op[q].status
           /\ op[q].kind = "delete" => op[v].status = op[q].status
           /\ op[q].kind \in {"postLabel", "deleteLabel"} =>
                  op[v].kind \in {"postLabel", "deleteLabel"}
           /\ Work(q) /\ Work(v)
<1>1. Signing!Compatible(op[q], op[v]) /\ Work(q) /\ Work(v)
    BY DEF SignInv, SignCalm
<1> QED BY <1>1 DEF Signing!Compatible, SignoffKinds, Work, Deleting

LEMMA CalmGoesOn ==
    ASSUME SignInv, calm, NEW q \in Signing!Active, Signing!Active' = Signing!Active, UNCHANGED op, pc'[q] # "row",
           \A v \in Signing!Active : Work(v)'
    PROVE  SignCalm'
<1>1. \A v, w \in Signing!Active' : Signing!Compatible(op'[v], op'[w])
    BY DEF SignInv, SignCalm
<1> QED BY <1>1 DEF SignCalm

LEMMA CalmEnds ==
    ASSUME SignInv, calm, NEW q \in Signing!Active, Signing!Active' = Signing!Active \ {q},
           \A w \in Workers \ {q} : op'[w] = op[w] /\ pc'[w] = pc[w],
           (\A v \in Signing!Active \ {q} : pc[v] = "row") => Matches',
           \A v \in Signing!Active \ {q} : Work(v)'
    PROVE  SignCalm'
<1>1. \A v \in Signing!Active' : v \in Signing!Active /\ op'[v] = op[v] /\ pc'[v] = pc[v]
    BY DEF Signing!Active
<1>2. \A v, w \in Signing!Active' : Signing!Compatible(op'[v], op'[w])
    BY <1>1 DEF SignInv, SignCalm
<1> QED BY <1>1, <1>2 DEF SignCalm

-----------------------------------------------------------------------------
(* The steps.                                                              *)

LEMMA CreateRowKeeps ==
    ASSUME SaneSigning, SignInv, NEW q \in Workers, Signing!Row(q), Signing!CreateRow(q)
    PROVE  SignInv'
<1>1. /\ q \in Signing!Active /\ pc[q] = "row" /\ op[q].kind = "post"
      /\ UNCHANGED <<labelling, inst, calm>>
      /\ calm' \in BOOLEAN
    BY DEF Signing!Row, Signing!CreateRow, Signing!Active, SignInv, Signing!TypeOK
<1>2. op[q].status \in Signing!Statuses /\ op[q].status # None /\ op[q].kind \in SignoffKinds
    BY <1>1, ActiveTypes, SignNames DEF SaneSigning, SignoffKinds
<1>3. /\ Signing!Applied' = Signing!Applied
      /\ \A w \in Workers : inst'[w].labelling =>
             w # q /\ pc[w] = "remove" /\ Signing!Out(w) \in Signing!Applied'
    BY <1>1 DEF Signing!Applied, SignInv, Signing!TypeOK
<1>4. CASE signoff = None
    <2>1. signoff' = op[q].status /\ Signing!Goto(q, "find") /\ UNCHANGED <<op, alone>>
        BY <1>4 DEF Signing!CreateRow
    <2>2. DataTypes'
        BY <1>1, <1>2, <2>1 DEF DataTypes, SignInv, Signing!TypeOK
    <2>3. /\ Signing!TypeOK' /\ StepOfKind' /\ Signing!Active' = Signing!Active
          /\ pc'[q] = "find" /\ \A w \in Workers \ {q} : pc'[w] = pc[w]
        BY <1>1, <1>2, <1>3, <2>1, <2>2, GoesOn
    <2>4. ASSUME calm PROVE SignCalm'
        <3>1. \A v \in Signing!Active : /\ op[v].kind = "post" /\ op[v].status # None /\ Posting(v)
                                        /\ v \in Workers
            BY <1>1, <1>2, <2>4, SameKind, ActiveTypes, SignNames DEF Work, SaneSigning
        <3>2. \A v \in Signing!Active : pc[v] = "row"
            BY <1>4, <3>1 DEF Posting
        <3>3. Signing!Applied \subseteq {Signing!Req}
            BY <1>4, <2>4, <3>2 DEF SignInv, SignCalm, Matches
        <3>4. \A v \in Signing!Active : Posting(v)'
            BY <1>3, <2>1, <2>3, <3>1, <3>2, <3>3 DEF Posting
        <3>5. \A v \in Signing!Active : Work(v)'
            BY <2>1, <3>1, <3>4 DEF Work
        <3> QED BY <1>1, <2>1, <2>3, <2>4, <3>5, CalmGoesOn
    <2>5. SignAlone'
        BY <1>1, <2>1, <2>3 DEF SignInv, SignAlone
    <2> QED BY <1>1, <2>3, <2>4, <2>5 DEF SignInv, SignCalm
<1>5. CASE signoff # None
    <2>1. Signing!Respond(q) /\ UNCHANGED signoff
        BY <1>5 DEF Signing!CreateRow
    <2>2. DataTypes'
        BY <1>1, <2>1 DEF DataTypes, SignInv, Signing!TypeOK
    <2>3. /\ Signing!TypeOK' /\ StepOfKind' /\ SignAlone' /\ Signing!Active' = Signing!Active \ {q}
          /\ \A w \in Workers \ {q} : pc'[w] = pc[w] /\ op'[w] = op[w]
        BY <1>1, <1>3, <2>1, <2>2, Ends
    <2>4. ASSUME calm PROVE SignCalm'
        <3>1. \A v \in Signing!Active : op[v].kind = "post" /\ Posting(v) /\ v \in Workers
            BY <1>1, <1>2, <2>4, SameKind, ActiveTypes DEF Work
        <3>2. (\A v \in Signing!Active \ {q} : pc[v] = "row") => Matches'
            BY <1>1, <1>3, <2>1, <2>4 DEF SignInv, SignCalm, Matches
        <3>3. \A v \in Signing!Active \ {q} : Posting(v)'
            BY <1>1, <1>3, <2>1, <2>3, <3>1 DEF Posting
        <3>4. \A v \in Signing!Active \ {q} : Work(v)'
            BY <2>3, <3>1, <3>3 DEF Work
        <3> QED BY <1>1, <2>3, <2>4, <3>2, <3>4, CalmEnds
    <2> QED BY <1>1, <2>3, <2>4 DEF SignInv, SignCalm
<1> QED BY <1>4, <1>5

LEMMA SaveRowKeeps ==
    ASSUME SaneSigning, SignInv, NEW q \in Workers, Signing!Row(q), Signing!SaveRow(q)
    PROVE  SignInv'
<1>1. /\ q \in Signing!Active /\ pc[q] = "row" /\ op[q].kind = "put"
      /\ UNCHANGED <<labelling, inst, calm>>
      /\ calm' \in BOOLEAN
    BY DEF Signing!Row, Signing!SaveRow, Signing!Active, SignInv, Signing!TypeOK
<1>2. op[q].status \in Signing!Statuses /\ op[q].status # None /\ op[q].kind \in SignoffKinds
    BY <1>1, ActiveTypes, SignNames DEF SaneSigning, SignoffKinds
<1>3. /\ Signing!Applied' = Signing!Applied
      /\ \A w \in Workers : inst'[w].labelling =>
             w # q /\ pc[w] = "remove" /\ Signing!Out(w) \in Signing!Applied'
    BY <1>1 DEF Signing!Applied, SignInv, Signing!TypeOK
<1>4. CASE inst[q].signoff
    <2>1. signoff' = op[q].status /\ Signing!Goto(q, "find") /\ UNCHANGED <<op, alone>>
        BY <1>4 DEF Signing!SaveRow
    <2>2. DataTypes'
        BY <1>1, <1>2, <2>1 DEF DataTypes, SignInv, Signing!TypeOK
    <2>3. /\ Signing!TypeOK' /\ StepOfKind' /\ Signing!Active' = Signing!Active
          /\ pc'[q] = "find" /\ \A w \in Workers \ {q} : pc'[w] = pc[w]
        BY <1>1, <1>2, <1>3, <2>1, <2>2, GoesOn
    <2>4. ASSUME calm PROVE SignCalm'
        <3>1. \A v \in Signing!Active : /\ op[v].kind = "put" /\ op[v].status = op[q].status
                                        /\ Putting(v) /\ v \in Workers
            BY <1>1, <1>2, <2>4, SameKind, ActiveTypes DEF Work
        <3>2. \A v \in Signing!Active : Putting(v)'
            BY <1>1, <1>3, <2>1, <2>3, <3>1 DEF Putting
        <3>3. \A v \in Signing!Active : Work(v)'
            BY <2>1, <3>1, <3>2 DEF Work
        <3> QED BY <1>1, <2>1, <2>3, <2>4, <3>3, CalmGoesOn
    <2>5. SignAlone'
        BY <1>1, <2>1, <2>3 DEF SignInv, SignAlone
    <2> QED BY <1>1, <2>3, <2>4, <2>5 DEF SignInv, SignCalm
<1>5. CASE ~ inst[q].signoff
    <2>1. Signing!Respond(q) /\ UNCHANGED signoff
        BY <1>5 DEF Signing!SaveRow
    <2>2. DataTypes'
        BY <1>1, <2>1 DEF DataTypes, SignInv, Signing!TypeOK
    <2>3. /\ Signing!TypeOK' /\ StepOfKind' /\ SignAlone' /\ Signing!Active' = Signing!Active \ {q}
        BY <1>1, <1>3, <2>1, <2>2, Ends
    <2>4. ~ calm
        BY <1>1, <1>2, <1>5, SameKind DEF Work, Putting
    <2> QED BY <1>1, <2>3, <2>4 DEF SignInv, SignCalm
<1> QED BY <1>4, <1>5

LEMMA DeleteRowKeeps ==
    ASSUME SaneSigning, SignInv, NEW q \in Workers, Signing!Row(q), Signing!DeleteRow(q)
    PROVE  SignInv'
<1>1. /\ q \in Signing!Active /\ pc[q] = "row" /\ op[q].kind = "delete"
      /\ Signing!Goto(q, "find") /\ UNCHANGED <<labelling, op, alone, calm>>
      /\ calm' \in BOOLEAN /\ op[q].kind \in SignoffKinds
    BY DEF Signing!Row, Signing!DeleteRow, Signing!Active, SignInv, Signing!TypeOK, SignoffKinds
<1>2. /\ signoff' \in {signoff, None}
      /\ inst[q].signoff => signoff' = None
      /\ ~ inst[q].signoff => signoff' = signoff
      /\ inst' \in [Workers -> [signoff : BOOLEAN, labelling : BOOLEAN]]
      /\ \A w \in Workers : /\ inst'[w].labelling = inst[w].labelling
                            /\ inst'[w].signoff \in {inst[w].signoff, FALSE}
                            /\ inst'[w].signoff # inst[w].signoff => signoff' = None
    <2>1. CASE inst[q].signoff
        <3>1. /\ signoff' = None
              /\ inst' = [v \in Workers |-> [inst[v] EXCEPT !.signoff = FALSE]]
            BY <2>1 DEF Signing!DeleteRow
        <3>2. \A w \in Workers : inst[w] \in [signoff : BOOLEAN, labelling : BOOLEAN]
            BY DEF SignInv, Signing!TypeOK
        <3>3. \A w \in Workers : /\ inst'[w] = [inst[w] EXCEPT !.signoff = FALSE]
                                 /\ inst'[w].labelling = inst[w].labelling
                                 /\ inst'[w].signoff = FALSE
                                 /\ inst'[w] \in [signoff : BOOLEAN, labelling : BOOLEAN]
            BY <3>1, <3>2
        <3> QED BY <2>1, <3>1, <3>3
    <2>2. CASE ~ inst[q].signoff
        BY <2>2 DEF Signing!DeleteRow, SignInv, Signing!TypeOK
    <2> QED BY <2>1, <2>2
<1>3. /\ Signing!Applied' = Signing!Applied
      /\ \A w \in Workers : inst'[w].labelling =>
             (IF w = q THEN "find" = "remove" ELSE pc[w] = "remove") /\ Signing!Out(w) \in Signing!Applied'
    BY <1>1, <1>2 DEF Signing!Applied, SignInv, Signing!TypeOK
<1>4. DataTypes'
    BY <1>1, <1>2 DEF DataTypes, SignInv, Signing!TypeOK
<1>5. /\ Signing!TypeOK' /\ StepOfKind' /\ Signing!Active' = Signing!Active
      /\ pc'[q] = "find" /\ \A w \in Workers \ {q} : pc'[w] = pc[w]
    BY <1>1, <1>3, <1>4, GoesOn
<1>6. ASSUME calm PROVE SignCalm'
    <2>1. \A v \in Signing!Active : op[v].kind = "delete" /\ Deleting(v) /\ v \in Workers
        BY <1>1, <1>6, SameKind, ActiveTypes DEF Work
    <2>2. signoff' = None
        BY <1>1, <1>2, <2>1 DEF Deleting
    <2>3. \A v \in Signing!Active : Deleting(v)'
        BY <1>1, <1>2, <1>3, <1>5, <2>1, <2>2 DEF Deleting
    <2>4. \A v \in Signing!Active : Work(v)'
        BY <1>1, <2>1, <2>3 DEF Work
    <2> QED BY <1>1, <1>5, <1>6, <2>4, CalmGoesOn
<1>7. SignAlone'
    BY <1>1, <1>5 DEF SignInv, SignAlone
<1> QED BY <1>1, <1>5, <1>6, <1>7 DEF SignInv, SignCalm

LEMMA FindKeeps ==
    ASSUME SaneSigning, SignInv, NEW q \in Workers, Signing!Find(q)
    PROVE  SignInv'
<1>1. /\ q \in Signing!Active /\ pc[q] = "find" /\ op[q].kind \in SignoffKinds
      /\ UNCHANGED <<signoff, labelling, calm>> /\ calm' \in BOOLEAN /\ Signing!Applied' = Signing!Applied
    BY DEF Signing!Find, Signing!Active, SignInv, Signing!TypeOK, StepOfKind, Signing!Applied
<1>2. /\ op[q].status \in Signing!Statuses /\ op[q].status # None
      /\ op[q].kind = "post" => Signing!Out(q) = Signing!Req
      /\ op[q].kind = "put" => Signing!Out(q) = Signing!Opposite(op[q].status)
      /\ op[q].kind = "delete" => Signing!Out(q) = op[q].status
    BY <1>1, ActiveTypes, SignNames DEF SaneSigning
<1>3. CASE Signing!Out(q) \in Signing!Applied
    <2>1. /\ inst' = [inst EXCEPT ![q].labelling = TRUE] /\ Signing!Goto(q, "remove")
          /\ UNCHANGED <<op, alone>>
        BY <1>3 DEF Signing!Find
    <2>2. /\ inst' \in [Workers -> [signoff : BOOLEAN, labelling : BOOLEAN]]
          /\ inst'[q].labelling /\ inst'[q].signoff = inst[q].signoff
          /\ \A w \in Workers \ {q} : inst'[w] = inst[w]
        BY <2>1 DEF SignInv, Signing!TypeOK
    <2>3. \A w \in Workers : inst'[w].labelling =>
              (IF w = q THEN "remove" = "remove" ELSE pc[w] = "remove") /\ Signing!Out(w) \in Signing!Applied'
        BY <1>1, <1>3, <2>2 DEF SignInv, Signing!TypeOK
    <2>4. DataTypes'
        BY <1>1, <2>2 DEF DataTypes, SignInv, Signing!TypeOK
    <2>5. /\ Signing!TypeOK' /\ StepOfKind' /\ Signing!Active' = Signing!Active
          /\ pc'[q] = "remove" /\ \A w \in Workers \ {q} : pc'[w] = pc[w]
        BY <1>1, <2>1, <2>3, <2>4, GoesOn
    <2>6. ASSUME calm, NEW v \in Signing!Active PROVE Work(v)'
        <3>1. /\ Work(v) /\ Work(q) /\ v \in Workers /\ op[v].kind = op[q].kind
              /\ op[q].kind # "post" => op[v].status = op[q].status
            BY <1>1, <2>6, SameKind, ActiveTypes DEF SignoffKinds
        <3>2. CASE op[q].kind = "post"
            <4>1. /\ \A u \in Signing!Active \ {q} : pc'[u] = "row"
                  /\ signoff' = op'[q].status /\ Signing!Applied' \subseteq {Signing!Req}
                BY <1>1, <2>1, <2>5, <3>1, <3>2 DEF Work, Posting, Signing!Active
            <4>2. Posting(v)' /\ op'[v].kind = "post"
                BY <2>1, <2>2, <2>5, <3>1, <3>2, <4>1 DEF Posting
            <4> QED BY <4>2 DEF Work
        <3>3. CASE op[q].kind = "put"
            <4>1. Putting(v)' /\ op'[v].kind = "put"
                BY <1>1, <2>1, <2>2, <2>5, <3>1, <3>3 DEF Work, Putting
            <4> QED BY <4>1 DEF Work
        <3>4. CASE op[q].kind = "delete"
            <4>1. Deleting(v)' /\ op'[v].kind = "delete"
                BY <1>1, <2>1, <2>2, <2>5, <3>1, <3>4 DEF Work, Deleting
            <4> QED BY <4>1 DEF Work
        <3> QED BY <1>1, <3>2, <3>3, <3>4 DEF SignoffKinds
    <2>7. calm => SignCalm'
        BY <1>1, <2>1, <2>5, <2>6, CalmGoesOn
    <2>8. SignAlone'
        BY <1>1, <2>1, <2>2, <2>5 DEF SignInv, SignAlone
    <2> QED BY <1>1, <2>5, <2>7, <2>8 DEF SignInv, SignCalm
<1>4. CASE Signing!Out(q) \notin Signing!Applied
    <2>1. /\ UNCHANGED inst
          /\ \A w \in Workers : inst'[w].labelling =>
                 w # q /\ pc[w] = "remove" /\ Signing!Out(w) \in Signing!Applied'
          /\ DataTypes'
        BY <1>1, <1>4 DEF Signing!Find, SignInv, Signing!TypeOK, DataTypes
    <2>2. CASE op[q].kind \in {"post", "put"}
        <3> DEFINE st == IF op[q].kind = "post" THEN "add" ELSE "look"
        <3>0. /\ st \in {"look", "add"} /\ (st = "look" <=> op[q].kind = "put")
            BY <2>2
        <3>1. Signing!Goto(q, st) /\ UNCHANGED <<op, alone>>
            BY <1>4, <2>2 DEF Signing!Find
        <3> HIDE DEF st
        <3>2. /\ Signing!TypeOK' /\ StepOfKind' /\ Signing!Active' = Signing!Active
              /\ pc'[q] = st /\ \A w \in Workers \ {q} : pc'[w] = pc[w]
            BY <1>1, <2>1, <3>0, <3>1, GoesOn
        <3>3. ASSUME calm, NEW v \in Signing!Active PROVE Work(v)'
            <4>1. /\ Work(v) /\ Work(q) /\ v \in Workers /\ op[v].kind = op[q].kind
                  /\ op[q].kind # "post" => op[v].status = op[q].status
                BY <1>1, <3>3, SameKind, ActiveTypes DEF SignoffKinds
            <4>2. CASE op[q].kind = "post"
                <5>1. /\ \A u \in Signing!Active \ {q} : pc'[u] = "row"
                      /\ signoff' = op'[q].status /\ Signing!Applied' = {}
                    BY <1>1, <1>2, <1>4, <3>1, <3>2, <4>1, <4>2 DEF Work, Posting, Signing!Active
                <5>2. Posting(v)' /\ op'[v].kind = "post"
                    BY <3>0, <3>1, <3>2, <4>1, <4>2, <5>1 DEF Posting
                <5> QED BY <5>2 DEF Work
            <4>3. CASE op[q].kind = "put"
                <5>1. Putting(v)' /\ op'[v].kind = "put"
                    BY <1>1, <1>2, <1>4, <2>1, <3>0, <3>1, <3>2, <4>1, <4>3 DEF Work, Putting
                <5> QED BY <5>1 DEF Work
            <4> QED BY <2>2, <4>2, <4>3
        <3>4. calm => SignCalm'
            BY <1>1, <3>0, <3>1, <3>2, <3>3, CalmGoesOn
        <3>5. SignAlone'
            <4>1. \A w \in Workers : Signing!Out(w)' = Signing!Out(w)
                BY <3>1 DEF Signing!Out
            <4> QED BY <1>1, <1>4, <2>1, <3>0, <3>1, <3>2, <4>1 DEF SignInv, SignAlone
        <3> QED BY <1>1, <3>2, <3>4, <3>5 DEF SignInv, SignCalm
    <2>3. CASE op[q].kind = "delete"
        <3>1. Signing!Respond(q)
            BY <1>4, <2>3 DEF Signing!Find
        <3>2. /\ Signing!TypeOK' /\ StepOfKind' /\ SignAlone' /\ Signing!Active' = Signing!Active \ {q}
              /\ \A w \in Workers \ {q} : pc'[w] = pc[w] /\ op'[w] = op[w]
            BY <1>1, <2>1, <3>1, Ends
        <3>3. ASSUME calm PROVE SignCalm'
            <4>1. \A v \in Signing!Active : op[v].kind = "delete" /\ Deleting(v) /\ v \in Workers
                BY <1>1, <2>3, <3>3, SameKind, ActiveTypes DEF Work
            <4>2. signoff' = None /\ Signing!Applied' \subseteq {Signing!Req}
                BY <1>1, <1>2, <1>4, <2>3, <4>1 DEF Deleting
            <4>3. \A v \in Signing!Active \ {q} : Deleting(v)'
                BY <1>1, <2>1, <3>2, <4>1 DEF Deleting, Signing!Active
            <4>4. \A v \in Signing!Active \ {q} : Work(v)'
                BY <3>2, <4>1, <4>3 DEF Work
            <4> QED BY <1>1, <3>2, <3>3, <4>2, <4>4, CalmEnds DEF Matches
        <3> QED BY <1>1, <3>2, <3>3 DEF SignInv, SignCalm
    <2> QED BY <1>1, <2>2, <2>3 DEF SignoffKinds
<1> QED BY <1>3, <1>4

LEMMA RemoveKeeps ==
    ASSUME SaneSigning, SignInv, NEW q \in Workers, Signing!Remove(q)
    PROVE  SignInv'
<1>1. /\ q \in Signing!Active /\ pc[q] = "remove" /\ op[q].kind \in Signing!Kinds
      /\ op[q].kind # "postLabel" /\ Signing!Out(q) \in Signing!Labels
      /\ UNCHANGED <<signoff, calm>> /\ calm' \in BOOLEAN
    <2>1. q \in Signing!Active /\ pc[q] = "remove"
        BY DEF Signing!Remove, Signing!Active
    <2>2. op[q].kind \in Signing!Kinds /\ op[q].kind # "postLabel"
        BY <2>1, ActiveTypes DEF SignInv, StepOfKind
    <2>3. Signing!Out(q) \in Signing!Labels
        BY <2>1, <2>2, ActiveTypes, SignNames DEF Signing!Kinds, SignoffKinds
    <2> QED BY <2>1, <2>2, <2>3 DEF Signing!Remove, SignInv, Signing!TypeOK
<1>2. /\ labelling' \in [Signing!Labels -> Users \cup {None}]
      /\ inst' \in [Workers -> [signoff : BOOLEAN, labelling : BOOLEAN]]
      /\ Signing!Applied' = IF inst[q].labelling THEN Signing!Applied \ {Signing!Out(q)} ELSE Signing!Applied
      /\ \A v \in Workers :
             /\ inst'[v].signoff = inst[v].signoff
             /\ inst'[v].labelling =>
                    inst[v].labelling /\ v # q /\ Signing!Out(v) \in Signing!Applied'
    <2>1. CASE inst[q].labelling
        <3>1. Signing!TakeOff(Signing!Out(q))
            BY <2>1 DEF Signing!Remove
        <3>2. \A v \in Workers : inst[v].labelling => Signing!Out(v) \in Signing!Applied
            BY DEF SignInv, Signing!TypeOK
        <3> QED BY <1>1, <2>1, <3>1, <3>2, TakesLabel DEF SignInv
    <2>2. CASE ~ inst[q].labelling
        BY <2>2 DEF Signing!Remove, SignInv, Signing!TypeOK, Signing!Applied
    <2> QED BY <2>1, <2>2
<1>3. DataTypes'
    BY <1>1, <1>2 DEF DataTypes, SignInv, Signing!TypeOK
<1>4. \A w \in Workers : inst'[w].labelling => w # q /\ pc[w] = "remove" /\ Signing!Out(w) \in Signing!Applied'
    BY <1>2 DEF SignInv, Signing!TypeOK
<1>5. CASE op[q].kind \in SignoffKinds
    <2> DEFINE st == IF op[q].kind = "put" THEN "look" ELSE "add"
    <2>1. /\ st \in {"look", "add"} /\ (st = "look" <=> op[q].kind = "put")
        OBVIOUS
    <2>2. Signing!Goto(q, st) /\ UNCHANGED <<op, alone>>
        BY <1>5 DEF Signing!Remove, SignoffKinds
    <2> HIDE DEF st
    <2>3. /\ Signing!TypeOK' /\ StepOfKind' /\ Signing!Active' = Signing!Active
          /\ pc'[q] = st /\ \A w \in Workers \ {q} : pc'[w] = pc[w]
        BY <1>1, <1>3, <1>4, <1>5, <2>1, <2>2, GoesOn
    <2>4. /\ op[q].status \in Signing!Statuses
          /\ op[q].kind = "post" => Signing!Out(q) = Signing!Req
          /\ op[q].kind = "put" => Signing!Out(q) = Signing!Opposite(op[q].status)
          /\ op[q].kind = "delete" => Signing!Out(q) = op[q].status
        BY <1>1, <1>5, ActiveTypes
    <2>5. ASSUME calm, NEW v \in Signing!Active PROVE Work(v)'
        <3>1. /\ Work(v) /\ Work(q) /\ v \in Workers /\ op[v].kind = op[q].kind
              /\ op[q].kind # "post" => op[v].status = op[q].status
            BY <1>5, <1>1, <2>5, SameKind, ActiveTypes DEF SignoffKinds
        <3>2. CASE op[q].kind = "post"
            <4>1. /\ \A u \in Signing!Active \ {q} : pc'[u] = "row"
                  /\ signoff' = op'[q].status /\ Signing!Applied' = {}
                BY <1>1, <1>2, <2>2, <2>3, <2>4, <3>1, <3>2 DEF Work, Posting, Signing!Active
            <4>2. Posting(v)' /\ op'[v].kind = "post"
                BY <2>1, <2>2, <2>3, <3>1, <3>2, <4>1 DEF Posting
            <4> QED BY <4>2 DEF Work
        <3>3. CASE op[q].kind = "put"
            <4>1. Putting(q) /\ Putting(v)
                BY <3>1, <3>3 DEF Work
            <4>2. Signing!Applied' \subseteq Signing!Applied /\ Signing!Opposite(op[q].status) \notin Signing!Applied'
                BY <1>1, <1>2, <2>4, <3>3, <4>1 DEF Putting
            <4>3. Putting(v)' /\ op'[v].kind = "put"
                BY <1>1, <1>2, <2>1, <2>2, <2>3, <3>1, <3>3, <4>1, <4>2 DEF Putting
            <4> QED BY <4>3 DEF Work
        <3>4. CASE op[q].kind = "delete"
            <4>1. Deleting(q) /\ Deleting(v)
                BY <3>1, <3>4 DEF Work
            <4>2. Signing!Applied' \subseteq Signing!Applied /\ op[q].status \notin Signing!Applied'
                BY <1>1, <1>2, <2>4, <3>4, <4>1 DEF Deleting
            <4>3. Deleting(v)' /\ op'[v].kind = "delete"
                BY <1>1, <1>2, <2>1, <2>2, <2>3, <3>1, <3>4, <4>1, <4>2 DEF Deleting
            <4> QED BY <4>3 DEF Work
        <3> QED BY <1>5, <3>2, <3>3, <3>4 DEF SignoffKinds
    <2>6. calm => SignCalm'
        BY <1>1, <2>1, <2>2, <2>3, <2>5, CalmGoesOn
    <2>7. SignAlone'
        <3>1. Signing!Out(q)' = Signing!Out(q)
            BY <2>2 DEF Signing!Out
        <3>2. \A w \in alone : w = q
            BY <1>1 DEF SignInv, SignAlone
        <3>3. q \in alone /\ op[q].kind = "put" => Signing!Out(q) \notin Signing!Applied'
            BY <1>1, <1>2 DEF SignInv, SignAlone
        <3> QED BY <1>1, <2>1, <2>2, <2>3, <3>1, <3>2, <3>3 DEF SignInv, SignAlone
    <2> QED BY <1>1, <2>3, <2>6, <2>7 DEF SignInv, SignCalm
<1>6. CASE op[q].kind = "deleteLabel"
    <2>1. Signing!Respond(q)
        BY <1>6 DEF Signing!Remove
    <2>2. /\ Signing!TypeOK' /\ StepOfKind' /\ SignAlone' /\ Signing!Active' = Signing!Active \ {q}
          /\ \A w \in Workers \ {q} : pc'[w] = pc[w] /\ op'[w] = op[w]
        BY <1>1, <1>3, <1>4, <2>1, Ends
    <2>3. ASSUME calm PROVE SignCalm'
        <3>1. \A v \in Signing!Active : /\ op[v].kind \in {"postLabel", "deleteLabel"} /\ v \in Workers
                                        /\ Requesting
            BY <1>1, <1>6, <2>3, SameKind, ActiveTypes DEF Work
        <3>2. Requesting'
            BY <1>1, <1>2, <3>1 DEF Requesting
        <3>3. Matches'
            BY <3>2 DEF Requesting, Matches
        <3>4. \A v \in Signing!Active \ {q} : Work(v)'
            BY <2>2, <3>1, <3>2 DEF Work
        <3> QED BY <1>1, <2>2, <2>3, <3>3, <3>4, CalmEnds
    <2> QED BY <1>1, <2>2, <2>3 DEF SignInv, SignCalm
<1> QED BY <1>1, <1>5, <1>6 DEF Signing!Kinds, SignoffKinds

LEMMA LookKeeps ==
    ASSUME SaneSigning, SignInv, NEW q \in Workers, Signing!Look(q)
    PROVE  SignInv'
<1>1. /\ q \in Signing!Active /\ pc[q] = "look" /\ op[q].kind = "put" /\ op[q].kind \in SignoffKinds
      /\ UNCHANGED <<signoff, labelling, inst, calm>> /\ calm' \in BOOLEAN /\ Signing!Applied' = Signing!Applied
    BY
       DEF Signing!Look, Signing!Active, SignInv, Signing!TypeOK, StepOfKind, Signing!Applied,
           SignoffKinds
<1>2. /\ Signing!In(q) = op[q].status /\ op[q].status \in Signing!Statuses
    BY <1>1, ActiveTypes
<1>3. /\ \A w \in Workers : inst'[w].labelling =>
             w # q /\ pc[w] = "remove" /\ Signing!Out(w) \in Signing!Applied'
      /\ DataTypes'
    BY <1>1 DEF SignInv, Signing!TypeOK, DataTypes
<1>4. \A w \in Workers : Signing!Out(w)' = Signing!Out(w) \/ op'[w] # op[w]
    BY DEF Signing!Out
<1>5. CASE Signing!In(q) \in Signing!Applied
    <2>1. Signing!Respond(q)
        BY <1>5 DEF Signing!Look
    <2>2. /\ Signing!TypeOK' /\ StepOfKind' /\ SignAlone' /\ Signing!Active' = Signing!Active \ {q}
          /\ \A w \in Workers \ {q} : pc'[w] = pc[w] /\ op'[w] = op[w]
        BY <1>1, <1>3, <2>1, Ends
    <2>3. ASSUME calm PROVE SignCalm'
        <3>1. \A v \in Signing!Active : op[v].kind = "put" /\ Putting(v) /\ v \in Workers
            BY <1>1, <2>3, SameKind, ActiveTypes DEF Work
        <3>2. Matches'
            <4>1. /\ signoff' = op[q].status
                  /\ Signing!Applied' = {op[q].status}
                BY <1>1, <1>2, <1>5, <3>1 DEF Putting
            <4>2. op[q].status # None
                BY <1>2, SignNames DEF SaneSigning
            <4> QED BY <4>1, <4>2 DEF Matches
        <3>3. \A v \in Signing!Active \ {q} : Putting(v)'
            BY <1>1, <2>2, <3>1 DEF Putting
        <3>4. \A v \in Signing!Active \ {q} : Work(v)'
            BY <2>2, <3>1, <3>3 DEF Work
        <3> QED BY <1>1, <2>2, <2>3, <3>2, <3>4, CalmEnds
    <2> QED BY <1>1, <2>2, <2>3 DEF SignInv, SignCalm
<1>6. CASE Signing!In(q) \notin Signing!Applied
    <2>1. Signing!Goto(q, "add") /\ UNCHANGED <<op, alone>>
        BY <1>6 DEF Signing!Look
    <2>2. /\ Signing!TypeOK' /\ StepOfKind' /\ Signing!Active' = Signing!Active
          /\ pc'[q] = "add" /\ \A w \in Workers \ {q} : pc'[w] = pc[w]
        BY <1>1, <1>3, <2>1, GoesOn
    <2>3. ASSUME calm PROVE SignCalm'
        <3>1. \A v \in Signing!Active : op[v].kind = "put" /\ Putting(v) /\ v \in Workers
            BY <1>1, <2>3, SameKind, ActiveTypes DEF Work
        <3>2. \A v \in Signing!Active : Putting(v)'
            BY <1>1, <2>1, <2>2, <3>1 DEF Putting
        <3>3. \A v \in Signing!Active : Work(v)'
            BY <2>1, <3>1, <3>2 DEF Work
        <3> QED BY <1>1, <2>1, <2>2, <2>3, <3>3, CalmGoesOn
    <2>4. SignAlone'
        <3>1. Signing!Out(q)' = Signing!Out(q)
            BY <2>1 DEF Signing!Out
        <3> QED BY <1>1, <2>1, <2>2, <3>1 DEF SignInv, SignAlone
    <2> QED BY <1>1, <2>2, <2>3, <2>4 DEF SignInv, SignCalm
<1> QED BY <1>5, <1>6

LEMMA AddKeeps ==
    ASSUME SaneSigning, SignInv, NEW q \in Workers, Signing!Add(q)
    PROVE  SignInv'
<1>1. /\ q \in Signing!Active /\ pc[q] = "add" /\ Signing!Respond(q)
      /\ UNCHANGED <<signoff, inst, calm>> /\ calm' \in BOOLEAN
    BY DEF Signing!Add, Signing!Active, SignInv, Signing!TypeOK
<1>2. /\ op[q].kind \in SignoffKinds \cup {"postLabel"} /\ op[q].user \in Users
      /\ Signing!In(q) \in Signing!Labels
    <2>1. op[q].kind \in Signing!Kinds /\ op[q].kind # "deleteLabel" /\ op[q].user \in Users
        BY <1>1, ActiveTypes DEF SignInv, StepOfKind
    <2>2. op[q].kind \in SignoffKinds \cup {"postLabel"}
        BY <2>1 DEF Signing!Kinds, SignoffKinds
    <2> QED BY <1>1, <2>1, <2>2, ActiveTypes, SignNames
<1>3. labelling' \in [Signing!Labels -> Users \cup {None}] /\ Signing!Applied' = Signing!Applied \cup {Signing!In(q)}
    BY <1>2, PutsLabel DEF Signing!Add, SignInv
<1>4. /\ DataTypes'
      /\ \A w \in Workers : inst'[w].labelling =>
             w # q /\ pc[w] = "remove" /\ Signing!Out(w) \in Signing!Applied'
    BY <1>1, <1>3 DEF SignInv, Signing!TypeOK, DataTypes
<1>5. /\ Signing!TypeOK' /\ StepOfKind' /\ SignAlone' /\ Signing!Active' = Signing!Active \ {q}
      /\ \A w \in Workers \ {q} : pc'[w] = pc[w] /\ op'[w] = op[w]
    BY <1>1, <1>4, Ends
<1>6. ASSUME calm PROVE Matches' /\ \A v \in Signing!Active \ {q} : Work(v)'
    <2>1. CASE op[q].kind = "postLabel"
        <3>1. \A v \in Signing!Active : /\ op[v].kind \in {"postLabel", "deleteLabel"} /\ v \in Workers
                                        /\ Requesting
            BY <1>1, <1>6, <2>1, SameKind, ActiveTypes DEF Work
        <3>2. Signing!In(q) = Signing!Req
            BY <2>1 DEF Signing!In
        <3>3. Requesting'
            BY <1>1, <1>3, <3>1, <3>2 DEF Requesting
        <3> QED BY <1>5, <3>1, <3>3 DEF Work, Requesting, Matches
    <2>2. CASE op[q].kind = "post"
        <3>1. \A v \in Signing!Active : op[v].kind = "post" /\ v \in Workers
            BY <1>1, <1>6, <2>2, SameKind, ActiveTypes DEF SignoffKinds
        <3>2. Posting(q) /\ Signing!In(q) = op[q].status /\ op[q].status \in Signing!Statuses
            BY <1>1, <1>6, <2>2, SameKind, ActiveTypes DEF Work, SignoffKinds
        <3>3. signoff' = op[q].status /\ Signing!Applied' = {op[q].status} /\ op[q].status # None
            BY <1>1, <1>3, <3>2, SignNames DEF Posting, SaneSigning
        <3>4. \A v \in Signing!Active \ {q} : pc'[v] = "row" /\ op'[v].kind = "post"
            BY <1>1, <1>5, <3>1, <3>2 DEF Posting
        <3> QED BY <3>3, <3>4 DEF Matches, Work, Posting
    <2>3. CASE op[q].kind = "put"
        <3>1. \A v \in Signing!Active : /\ op[v].kind = "put" /\ Putting(v) /\ v \in Workers
                                        /\ op[v].status = op[q].status
            BY <1>1, <1>6, <2>3, SameKind, ActiveTypes DEF SignoffKinds, Work
        <3>2. Signing!In(q) = op[q].status /\ op[q].status \in Signing!Statuses
            BY <1>1, <2>3, ActiveTypes DEF SignoffKinds
        <3>3. /\ signoff' = op[q].status /\ Signing!Applied' = {op[q].status}
              /\ op[q].status # None /\ Signing!Opposite(op[q].status) # op[q].status
            BY <1>1, <1>3, <3>1, <3>2, SignNames DEF Putting, SaneSigning
        <3>4. \A v \in Signing!Active \ {q} : Putting(v)'
            BY <1>1, <1>5, <3>1, <3>3 DEF Putting
        <3>5. \A v \in Signing!Active \ {q} : Work(v)'
            BY <1>5, <3>1, <3>4 DEF Work
        <3> QED BY <3>3, <3>5 DEF Matches
    <2>4. CASE op[q].kind = "delete"
        <3>1. \A v \in Signing!Active : op[v].kind = "delete" /\ Deleting(v) /\ v \in Workers
            BY <1>1, <1>6, <2>4, SameKind, ActiveTypes DEF SignoffKinds, Work
        <3>2. Signing!In(q) = Signing!Req /\ op[q].status \in Signing!Statuses /\ op[q].status # Signing!Req
            BY <1>1, <2>4, ActiveTypes, SignNames DEF SignoffKinds
        <3>3. /\ signoff' = None /\ Signing!Applied' = {Signing!Req} /\ op[q].status \notin Signing!Applied'
            BY <1>1, <1>3, <3>1, <3>2 DEF Deleting
        <3>4. \A v \in Signing!Active \ {q} : Deleting(v)'
            BY <1>1, <1>5, <3>1, <3>2, <3>3 DEF Deleting, Signing!Active
        <3>5. \A v \in Signing!Active \ {q} : Work(v)'
            BY <1>5, <3>1, <3>4 DEF Work
        <3> QED BY <3>3, <3>5 DEF Matches
    <2> QED BY <1>2, <2>1, <2>2, <2>3, <2>4 DEF SignoffKinds
<1>7. calm => SignCalm'
    BY <1>1, <1>5, <1>6, CalmEnds
<1> QED BY <1>1, <1>5, <1>7 DEF SignInv, SignCalm

LEMMA CrashKeeps ==
    ASSUME SaneSigning, SignInv, NEW q \in Workers, Signing!Crash(q)
    PROVE  SignInv'
<1>1. /\ q \in Signing!Active /\ Signing!Respond(q) /\ calm' = FALSE /\ UNCHANGED <<signoff, labelling>>
      /\ inst' = [inst EXCEPT ![q] = Signing!NoInst]
    BY DEF Signing!Crash, Signing!Active
<1>2. /\ ~ inst'[q].labelling /\ \A w \in Workers \ {q} : inst'[w] = inst[w]
      /\ inst' \in [Workers -> [signoff : BOOLEAN, labelling : BOOLEAN]]
    BY <1>1 DEF SignInv, Signing!TypeOK, Signing!NoInst
<1>3. Signing!Applied' = Signing!Applied /\ DataTypes'
    BY <1>1, <1>2 DEF SignInv, Signing!TypeOK, DataTypes, Signing!Applied
<1>4. \A w \in Workers : inst'[w].labelling =>
          w # q /\ pc[w] = "remove" /\ Signing!Out(w) \in Signing!Applied'
    BY <1>2, <1>3 DEF SignInv, Signing!TypeOK
<1>5. Signing!TypeOK' /\ StepOfKind' /\ SignAlone'
    BY <1>1, <1>3, <1>4, Ends
<1> QED BY <1>1, <1>5 DEF SignInv, SignCalm

\* What validation has made sure of when the request of a worker starts.
LEMMA StartKeeps ==
    ASSUME SaneSigning, SignInv, NEW q \in Workers, Signing!Start(q)
    PROVE  SignInv'
<1>1. PICK o \in Signing!Op :
         /\ Signing!Valid(o)
         /\ op' = [op EXCEPT ![q] = o]
         /\ Signing!Goto(q, Signing!FirstStep(o.kind))
         /\ calm' = (calm /\ \A v \in Signing!Active : Signing!Compatible(o, op[v]))
         /\ inst' = [inst EXCEPT ![q] = [signoff |-> o.kind \in {"put", "delete"},
                                         labelling |-> o.kind = "deleteLabel"]]
    BY DEF Signing!Start
<1>2. /\ pc[q] = "idle" /\ alone' = (IF Signing!Active = {} THEN {q} ELSE {})
      /\ UNCHANGED <<signoff, labelling>> /\ Signing!Applied' = Signing!Applied
    BY DEF Signing!Start, Signing!Applied
<1>3. /\ o.kind \in Signing!Kinds /\ o.user \in Users /\ o.status \in Signing!Statuses \cup {None}
      /\ o # Signing!NoOp
    BY DEF Signing!Op, Signing!NoOp, Signing!Kinds
<1>4. /\ op'[q] = o /\ pc'[q] = Signing!FirstStep(o.kind)
      /\ inst'[q].signoff = (o.kind \in {"put", "delete"})
      /\ inst'[q].labelling = (o.kind = "deleteLabel")
      /\ inst' \in [Workers -> [signoff : BOOLEAN, labelling : BOOLEAN]]
      /\ \A w \in Workers \ {q} : op'[w] = op[w] /\ pc'[w] = pc[w] /\ inst'[w] = inst[w]
    BY <1>1 DEF Signing!Goto, SignInv, Signing!TypeOK
<1>5. /\ o.kind = "postLabel" => pc'[q] = "add"
      /\ o.kind = "deleteLabel" => pc'[q] = "remove"
      /\ o.kind \in SignoffKinds => pc'[q] = "row"
      /\ pc'[q] \in {"add", "remove", "row"}
    BY <1>3, <1>4 DEF Signing!FirstStep, SignoffKinds, Signing!Kinds
<1>6. q \notin Signing!Active /\ Signing!Active' = Signing!Active \cup {q}
    BY <1>2, <1>4, <1>5 DEF Signing!Active
<1>7. /\ o.kind = "postLabel" => Signing!Applied = {}
      /\ o.kind = "deleteLabel" => Signing!Req \in Signing!Applied
      /\ o.kind = "post" => signoff = None /\ o.status \in Signing!Statuses
      /\ o.kind = "put" => signoff # None /\ o.status = Signing!Opposite(signoff)
      /\ o.kind = "delete" => signoff # None /\ o.status = signoff
    BY <1>1 DEF Signing!Valid, Signing!MayRequest, Signing!MaySign
<1>8. signoff \in Signing!Statuses \cup {None} /\ (o.kind \in SignoffKinds => o.status \in Signing!Statuses)
    BY <1>7, SignNames DEF SignInv, Signing!TypeOK, SignoffKinds
<1>9. \A w \in Workers \ {q} : Signing!Out(w)' = Signing!Out(w) /\ Signing!In(w)' = Signing!In(w)
    BY <1>4 DEF Signing!Out, Signing!In
<1>10. /\ o.kind = "deleteLabel" => Signing!Out(q)' = Signing!Req
       /\ o.kind = "post" => Signing!Out(q)' = Signing!Req /\ Signing!In(q)' = o.status
       /\ o.kind = "put" => Signing!Out(q)' = Signing!Opposite(o.status) /\ Signing!In(q)' = o.status
       /\ o.kind = "delete" => Signing!Out(q)' = o.status /\ Signing!In(q)' = Signing!Req
    BY <1>4 DEF Signing!Out, Signing!In
<1>11. Signing!TypeOK'
    <2>1. pc' \in [Workers -> {"idle", "row", "find", "remove", "look", "add"}]
        BY <1>1, <1>4, <1>5 DEF Signing!Goto, SignInv, Signing!TypeOK
    <2>2. op' \in [Workers -> Signing!Op \cup {Signing!NoOp}]
        BY <1>1 DEF SignInv, Signing!TypeOK
    <2>3. alone' \subseteq Signing!Active' /\ calm' \in BOOLEAN
        BY <1>1, <1>2, <1>6 DEF SignInv, Signing!TypeOK
    <2>4. ASSUME NEW w \in Workers, op'[w].kind \in {"post", "put", "delete"}
          PROVE  Signing!Out(w)' # Signing!In(w)'
        BY <2>4, <1>4, <1>8, <1>9, <1>10, SignNames DEF SignInv, Signing!TypeOK, SignoffKinds
    <2>5. ASSUME NEW w \in Workers, inst'[w].labelling
          PROVE  pc'[w] = "remove" /\ Signing!Out(w)' \in Signing!Applied'
        BY <2>5, <1>2, <1>4, <1>5, <1>7, <1>9, <1>10 DEF SignInv, Signing!TypeOK
    <2> QED BY <1>2, <1>4, <2>1, <2>2, <2>3, <2>4, <2>5 DEF SignInv, Signing!TypeOK
<1>12. StepOfKind'
    <2> SUFFICES ASSUME NEW w \in Workers
                 PROVE  /\ pc'[w] = "idle" <=> op'[w] = Signing!NoOp
                        /\ op'[w].kind = "postLabel" => pc'[w] = "add"
                        /\ op'[w].kind = "deleteLabel" => pc'[w] = "remove"
                        /\ op'[w].kind \in SignoffKinds => op'[w].status \in Signing!Statuses
                        /\ pc'[w] \in {"row", "find"} => op'[w].kind \in SignoffKinds
                        /\ pc'[w] = "look" => op'[w].kind = "put"
        BY DEF StepOfKind
    <2>1. CASE w = q
        BY <1>3, <1>4, <1>5, <1>8, <2>1 DEF Signing!Kinds, SignoffKinds
    <2>2. CASE w # q
        BY <1>4, <2>2 DEF SignInv, StepOfKind
    <2> QED BY <2>1, <2>2
<1>13. SignCalm'
    <2> SUFFICES ASSUME calm, \A v \in Signing!Active : Signing!Compatible(o, op[v])
                 PROVE  /\ \A v, w \in Signing!Active' : Signing!Compatible(op'[v], op'[w])
                        /\ (\A v \in Signing!Active' : pc'[v] = "row") => Matches'
                        /\ \A w \in Signing!Active' : Work(w)'
        BY <1>1 DEF SignCalm
    <2>1. \A v \in Signing!Active : /\ v \in Workers \ {q} /\ op'[v] = op[v] /\ pc'[v] = pc[v]
                                    /\ inst'[v] = inst[v]
        BY <1>4, <1>6 DEF Signing!Active
    <2>2. \A v, w \in Signing!Active' : Signing!Compatible(op'[v], op'[w])
        <3>1. \A v, w \in Signing!Active : Signing!Compatible(op[v], op[w])
            BY DEF SignInv, SignCalm
        <3>2. \A v \in Signing!Active : Signing!Compatible(op[v], o)
            BY DEF Signing!Compatible
        <3>3. Signing!Compatible(o, o)
            BY DEF Signing!Compatible
        <3> QED BY <1>4, <1>6, <2>1, <3>1, <3>2, <3>3
    <2>3. (\A v \in Signing!Active' : pc'[v] = "row") => Matches'
        BY <1>2, <1>6, <2>1 DEF SignInv, SignCalm, Matches
    <2>4. Signing!Active = {} => Matches
        BY DEF SignInv, SignCalm
    <2>5. \A v \in Signing!Active : /\ Work(v)
                                    /\ o.kind \in SignoffKinds => op[v].kind = o.kind
                                    /\ o.kind = "put" => op[v].status = o.status
                                    /\ o.kind \notin SignoffKinds => Requesting
        BY <1>3 DEF SignInv, SignCalm, Signing!Compatible, SignoffKinds, Work, Signing!Kinds
    <2>6. CASE o.kind \notin SignoffKinds
        <3>1. Requesting
            <4>1. CASE Signing!Active = {}
                BY <1>3, <1>7, <1>8, <2>4, <2>6, <4>1, SignNames
                   DEF Matches, Requesting, Signing!Kinds, SignoffKinds
            <4> QED BY <2>5, <2>6, <4>1
        <3>2. \A v \in Signing!Active' : op'[v].kind \notin SignoffKinds
            <4>1. \A v \in Signing!Active : op[v].kind \notin SignoffKinds
                BY <1>3, <2>6 DEF Signing!Compatible, SignoffKinds, Signing!Kinds
            <4> QED BY <1>4, <1>6, <2>1, <2>6, <4>1
        <3>3. Requesting'
            BY <1>2, <3>1 DEF Requesting
        <3>4. \A w \in Signing!Active' : Work(w)'
            BY <3>2, <3>3 DEF Work, SignoffKinds
        <3> QED BY <2>2, <2>3, <3>4
    <2>7. CASE o.kind = "post"
        <3>1. \A v \in Signing!Active' : op'[v].kind = "post" /\ (v # q => Posting(v))
            BY <1>4, <1>6, <2>1, <2>5, <2>7 DEF Work, SignoffKinds
        <3>2. \A v \in Signing!Active : pc[v] = "row"
            <4>1. signoff = None
                BY <1>7, <1>8, <2>7, SignNames
            <4>2. ASSUME NEW v \in Signing!Active PROVE op[v].kind = "post" /\ Posting(v)
                BY <2>5, <2>7, <4>2 DEF Work, SignoffKinds
            <4>3. ASSUME NEW v \in Signing!Active PROVE op[v].status \in Signing!Labels
                BY <4>2, <4>3, ActiveTypes, SignNames DEF SignoffKinds
            <4>4. None \notin Signing!Labels
                BY DEF SaneSigning
            <4> QED BY <4>1, <4>2, <4>3, <4>4 DEF Posting
        <3>3. \A v \in Signing!Active' : pc'[v] = "row"
            BY <1>5, <1>6, <2>1, <2>7, <3>2 DEF SignoffKinds
        <3>4. \A w \in Signing!Active' : Work(w)'
            BY <3>1, <3>3 DEF Work, Posting
        <3> QED BY <2>2, <2>3, <3>4
    <2>8. CASE o.kind = "put"
        <3>1. \A v \in Signing!Active : op[v].kind = "put" /\ op[v].status = o.status /\ Putting(v)
            BY <2>5, <2>8 DEF Work, SignoffKinds
        <3>2. /\ signoff \in {o.status, Signing!Opposite(o.status)}
              /\ Signing!Applied \subseteq {o.status, Signing!Opposite(o.status)}
              /\ ~ ({o.status, Signing!Opposite(o.status)} \subseteq Signing!Applied)
            <4>1. CASE Signing!Active = {}
                BY <1>7, <1>8, <2>4, <2>8, <4>1, SignNames DEF Matches
            <4>2. CASE Signing!Active # {}
                BY <3>1, <4>2 DEF Putting
            <4> QED BY <4>1, <4>2
        <3>3. Putting(q)'
            BY <1>2, <1>4, <1>5, <2>8, <3>2 DEF Putting, SignoffKinds
        <3>4. \A v \in Signing!Active : Putting(v)'
            BY <1>2, <2>1, <3>1 DEF Putting
        <3>5. \A w \in Signing!Active' : Putting(w)' /\ op'[w].kind = "put"
            BY <1>4, <1>6, <2>1, <2>8, <3>1, <3>3, <3>4
        <3>6. \A w \in Signing!Active' : Work(w)'
            BY <3>5 DEF Work
        <3> QED BY <2>2, <2>3, <3>6
    <2>9. CASE o.kind = "delete"
        <3>1. \A v \in Signing!Active : op[v].kind = "delete" /\ Deleting(v)
            BY <2>5, <2>9 DEF Work, SignoffKinds
        <3>2. \A v \in Signing!Active : op[v].status = o.status
            BY <1>7, <2>9, <3>1 DEF Deleting
        <3>3. /\ signoff = o.status /\ o.status # None
              /\ Signing!Applied \subseteq {o.status, Signing!Req} /\ ~ ({o.status, Signing!Req} \subseteq Signing!Applied)
            <4>1. CASE Signing!Active = {}
                BY <1>7, <1>8, <2>4, <2>9, <4>1, SignNames DEF Matches
            <4>2. CASE Signing!Active # {}
                BY <1>7, <2>9, <3>1, <3>2, <4>2 DEF Deleting
            <4> QED BY <4>1, <4>2
        <3>4. \A v \in Signing!Active' : op'[v].kind = "delete" /\ op'[v].status = o.status
            BY <1>4, <1>6, <2>1, <2>9, <3>1, <3>2
        <3>5. Deleting(q)'
            BY <1>2, <1>4, <1>5, <2>9, <3>3, <3>4 DEF Deleting, SignoffKinds
        <3>6. ASSUME NEW v \in Signing!Active PROVE Deleting(v)'
            BY <1>2, <1>6, <2>1, <3>1, <3>2, <3>4 DEF Deleting
        <3>7. \A w \in Signing!Active' : Work(w)'
            BY <1>6, <3>4, <3>5, <3>6 DEF Work
        <3> QED BY <2>2, <2>3, <3>7
    <2> QED BY <2>6, <2>7, <2>8, <2>9 DEF SignoffKinds
<1>14. SignAlone'
    <2> SUFFICES ASSUME Signing!Active = {}
                 PROVE  Signing!Active' = {q} /\ (o.kind = "put" => pc'[q] = "row")
        BY <1>2, <1>4 DEF SignAlone
    <2> QED BY <1>5, <1>6 DEF SignoffKinds
<1> QED BY <1>11, <1>12, <1>13, <1>14 DEF SignInv

LEMMA Unmoved == ASSUME SignInv, UNCHANGED Signing!vars PROVE SignInv'
<1> USE DEF Signing!vars
<1>1. Signing!Applied' = Signing!Applied /\ Signing!Active' = Signing!Active /\ \A w : Signing!Out(w)' = Signing!Out(w) /\ Signing!In(w)' = Signing!In(w)
    BY DEF Signing!Applied, Signing!Active, Signing!Out, Signing!In
<1>2. Signing!TypeOK' /\ StepOfKind'
    BY <1>1 DEF SignInv, Signing!TypeOK, StepOfKind
<1>3. SignCalm'
    <2>1. Matches => Matches'
        BY <1>1 DEF Matches
    <2>2. ASSUME NEW w \in Signing!Active, Work(w) PROVE Work(w)'
        BY <1>1, <2>2 DEF Work, Requesting, Posting, Putting, Deleting
    <2> QED BY <1>1, <2>1, <2>2 DEF SignInv, SignCalm
<1>4. SignAlone'
    BY <1>1 DEF SignInv, SignAlone
<1> QED BY <1>2, <1>3, <1>4 DEF SignInv

LEMMA SignStep == ASSUME SaneSigning, SignInv, [Signing!Next]_Signing!vars PROVE SignInv'
<1>1. ASSUME NEW w \in Workers, Signing!Row(w) PROVE SignInv'
    BY <1>1, CreateRowKeeps, SaveRowKeeps, DeleteRowKeeps DEF Signing!Row
<1>2. ASSUME NEW w \in Workers, Signing!Step(w) \/ Signing!Crash(w) PROVE SignInv'
    BY <1>1, <1>2, StartKeeps, FindKeeps, RemoveKeeps, LookKeeps, AddKeeps, CrashKeeps
       DEF Signing!Step
<1> QED BY <1>2, Unmoved DEF Signing!Next

LEMMA InvKeepsLabels == SignInv => Signing!TypeOK /\ Signing!LabelsMatchSignoff
BY DEF SignInv, SignCalm, Matches, Signing!LabelsMatchSignoff

LEMMA PutPutsRight ==
    ASSUME SaneSigning, SignInv, NEW w \in Workers, NEW s \in Signing!Statuses,
           alone = {w}, op[w].kind = "put", op[w].status = s,
           Signing!Add(w) \/ (Signing!Look(w) /\ pc'[w] = "idle")
    PROVE  signoff' = s /\ Signing!Applied' \cap Signing!Statuses = {s}
<1>1. /\ w \in Signing!Active /\ pc[w] \in {"look", "add"} /\ signoff' = signoff
    BY DEF Signing!Add, Signing!Look, Signing!Active
<1>2. signoff = s /\ Signing!Opposite(s) \notin Signing!Applied
    BY <1>1, ActiveTypes DEF SignInv, SignAlone, SignoffKinds
<1>3. Signing!In(w) = s /\ Signing!In(w) \in Signing!Labels /\ op[w].user \in Users
    BY <1>1, ActiveTypes DEF SignoffKinds
<1>4. CASE Signing!Add(w)
    <2>1. Signing!Applied' = Signing!Applied \cup {s}
        BY <1>3, <1>4, PutsLabel DEF Signing!Add, SignInv
    <2> QED BY <1>1, <1>2, <2>1, SignNames
<1>5. CASE Signing!Look(w) /\ pc'[w] = "idle"
    <2>1. Signing!Applied' = Signing!Applied /\ (Signing!In(w) \notin Signing!Applied => pc'[w] = "add")
        BY <1>5 DEF Signing!Look, Signing!Applied, Signing!Goto, SignInv, Signing!TypeOK
    <2> QED BY <1>1, <1>2, <1>3, <1>5, <2>1, SignNames
<1> QED BY <1>4, <1>5

-----------------------------------------------------------------------------
(* LogTags.                                                                *)

\* The access tags are among those that can be given.
SaneTags == Tagging!AccessTags \subseteq Tags

\* The statement that shows a log to the group of the tag, and the one that tags it.
Expose(t) == [do |-> "expose", tag |-> t]
Tagged(t) == [do |-> "tag", tag |-> t]

\* Statements that only add, to a log that has the given tags: a log is shown to a group
\* after it was tagged, and one that is tagged is shown.
Adds(statements, had) ==
    \A i \in 1 .. Len(statements) :
        /\ statements[i].do \in {"tag", "expose", "followPublic"}
        /\ statements[i].do = "expose" =>
               \/ statements[i].tag \in had
               \/ \E j \in 1 .. i - 1 : statements[j] = Tagged(statements[i].tag)
        /\ statements[i].do = "tag" /\ statements[i].tag \in Tagging!AccessTags =>
               \E j \in i + 1 .. Len(statements) : statements[j] = Expose(statements[i].tag)

OnlyAdds(l) == /\ perms[l] \subseteq tags[l]
               /\ \A w \in Tagging!Busy(l) : Adds(todo[w], tags[l])

\* What is tagged is shown or is about to be.
Covered(l) ==
    \A t \in tags[l] \cap Tagging!AccessTags :
        t \in perms[l] \/ \E w \in Tagging!Busy(l) : \E i \in 1 .. Len(todo[w]) : todo[w][i] = Expose(t)

\* The rests of remove_tag_from_log.
Hide(t) == <<[do |-> "hide", tag |-> t]>>
Removals == {<<[do |-> "untag", tag |-> t]>> : t \in Tags \ Tagging!AccessTags}
            \cup {Tagging!RemoveTag(Tagging!LvemTag), Tagging!RemoveTag(Tagging!PublicTag), Hide(Tagging!PublicTag),
                  <<[do |-> "hide", tag |-> Tagging!LvemTag], [do |-> "followLvem", tag |-> Tagging!LvemTag]>>,
                  <<[do |-> "followLvem", tag |-> Tagging!LvemTag]>>}

\* What a removal has still to do: the tag goes first, and then the permission.
Takes(statements, had, seen) ==
    /\ statements \in Removals
    /\ IF Head(statements).do = "hide"
       THEN /\ Head(statements).tag \notin had
            /\ seen \ {Head(statements).tag} = had \cap Tagging!AccessTags
       ELSE seen = had \cap Tagging!AccessTags

OneRemoves(l) == \E w \in Workers : Tagging!Busy(l) = {w} /\ Takes(todo[w], tags[l], perms[l])

TagsInv ==
    /\ Tagging!TypeOK
    /\ \A l \in Logs \ removed : OnlyAdds(l)
    /\ \A l \in Logs \ disturbed : (OnlyAdds(l) /\ Covered(l)) \/ OneRemoves(l)

-----------------------------------------------------------------------------
(* What the sequences of statements are like.                              *)

USE DEF Tagging!LvemTag, Tagging!PublicTag

LEMMA AccessTagsAre == Tagging!AccessTags = {"lvem", "public"}
BY DEF Tagging!AccessTags

\* Short sequences, put together.
LEMMA Two == ASSUME NEW a, NEW b PROVE <<a>> \o <<b>> = <<a, b>>
<1> DEFINE x == <<a>>  y == <<b>> z == <<a, b>> S == {a, b}
<1>1. /\ x \in Seq(S) /\ y \in Seq(S) /\ z \in Seq(S)
      /\ Len(x) = 1 /\ Len(y) = 1 /\ Len(z) = 2
      /\ x[1] = a /\ y[1] = b /\ z[1] = a /\ z[2] = b
    OBVIOUS
<1> HIDE DEF x, y, z, S
<1>2. /\ x \o y \in Seq(S) /\ Len(x \o y) = Len(x) + Len(y)
      /\ \A i \in 1 .. Len(x) + Len(y) : (x \o y)[i] = IF i <= Len(x) THEN x[i] ELSE y[i - Len(x)]
    BY <1>1, ConcatProperties
<1>3. (x \o y)[1] = a /\ (x \o y)[2] = b /\ Len(x \o y) = 2
    BY <1>1, <1>2
<1>4. \A i \in 1 .. Len(z) : (x \o y)[i] = z[i]
    BY <1>1, <1>3
<1>5. x \o y = z
    BY <1>1, <1>2, <1>3, <1>4, SeqEqual
<1> QED BY <1>5 DEF x, y, z

LEMMA Three == ASSUME NEW a, NEW b, NEW c PROVE <<a, b>> \o <<c>> = <<a, b, c>>
<1> DEFINE x == <<a, b>>  y == <<c>> z == <<a, b, c>> S == {a, b, c}
<1>1. /\ x \in Seq(S) /\ y \in Seq(S) /\ z \in Seq(S)
      /\ Len(x) = 2 /\ Len(y) = 1 /\ Len(z) = 3
      /\ x[1] = a /\ x[2] = b /\ y[1] = c /\ z[1] = a /\ z[2] = b /\ z[3] = c
    OBVIOUS
<1> HIDE DEF x, y, z, S
<1>2. /\ x \o y \in Seq(S) /\ Len(x \o y) = Len(x) + Len(y)
      /\ \A i \in 1 .. Len(x) + Len(y) : (x \o y)[i] = IF i <= Len(x) THEN x[i] ELSE y[i - Len(x)]
    BY <1>1, ConcatProperties
<1>3. (x \o y)[1] = a /\ (x \o y)[2] = b /\ (x \o y)[3] = c /\ Len(x \o y) = 3
    BY <1>1, <1>2
<1>4. \A i \in 1 .. Len(z) : (x \o y)[i] = z[i]
    BY <1>1, <1>3
<1>5. x \o y = z
    BY <1>1, <1>2, <1>3, <1>4, SeqEqual
<1> QED BY <1>5 DEF x, y, z

LEMMA AddTagIs ==
    /\ \A t : t \notin Tagging!AccessTags => Tagging!AddTag(t) = <<Tagged(t)>>
    /\ Tagging!AddTag("lvem") = <<Tagged("lvem"), Expose("lvem")>>
    /\ Tagging!AddTag("public") = <<Tagged("public"), Expose("public"),
                                    [do |-> "followPublic", tag |-> "public"]>>
<1>1. ASSUME NEW t, t \notin Tagging!AccessTags PROVE Tagging!AddTag(t) = <<Tagged(t)>>
    <2>1. Tagging!AddTag(t) = (<<Tagged(t)>> \o <<>>) \o <<>>
        BY <1>1, AccessTagsAre DEF Tagging!AddTag, Tagging!Do, Tagged
    <2> QED BY <2>1
<1>2. Tagging!AddTag("lvem") = <<Tagged("lvem"), Expose("lvem")>>
    <2>1. Tagging!AddTag("lvem") = (<<Tagged("lvem")>> \o <<Expose("lvem")>>) \o <<>>
        BY AccessTagsAre DEF Tagging!AddTag, Tagging!Do, Tagged, Expose
    <2> QED BY <2>1, Two
<1>3. Tagging!AddTag("public") = <<Tagged("public"), Expose("public"),
                                    [do |-> "followPublic", tag |-> "public"]>>
    <2>1. Tagging!AddTag("public") = (<<Tagged("public")>> \o <<Expose("public")>>)
                                     \o <<[do |-> "followPublic", tag |-> "public"]>>
        BY AccessTagsAre DEF Tagging!AddTag, Tagging!Do, Tagged, Expose
    <2> QED BY <2>1, Two, Three
<1> QED BY <1>1, <1>2, <1>3

LEMMA RemoveTagIs ==
    /\ \A t : t \notin Tagging!AccessTags => Tagging!RemoveTag(t) = <<[do |-> "untag", tag |-> t]>>
    /\ Tagging!RemoveTag("lvem") = <<[do |-> "untag", tag |-> "lvem"], [do |-> "hide", tag |-> "lvem"],
                                     [do |-> "followLvem", tag |-> "lvem"]>>
    /\ Tagging!RemoveTag("public") = <<[do |-> "untag", tag |-> "public"],
                                       [do |-> "hide", tag |-> "public"]>>
<1>1. ASSUME NEW t, t \notin Tagging!AccessTags PROVE Tagging!RemoveTag(t) = <<[do |-> "untag", tag |-> t]>>
    <2>1. Tagging!RemoveTag(t) = (<<[do |-> "untag", tag |-> t]>> \o <<>>) \o <<>>
        BY <1>1, AccessTagsAre DEF Tagging!RemoveTag, Tagging!Do
    <2> QED BY <2>1
<1>2. Tagging!RemoveTag("lvem") = <<[do |-> "untag", tag |-> "lvem"], [do |-> "hide", tag |-> "lvem"],
                                     [do |-> "followLvem", tag |-> "lvem"]>>
    <2>1. Tagging!RemoveTag("lvem") = (<<[do |-> "untag", tag |-> "lvem"]>> \o <<[do |-> "hide", tag |-> "lvem"]>>)
                                      \o <<[do |-> "followLvem", tag |-> "lvem"]>>
        BY AccessTagsAre DEF Tagging!RemoveTag, Tagging!Do
    <2> QED BY <2>1, Two, Three
<1>3. Tagging!RemoveTag("public") = <<[do |-> "untag", tag |-> "public"], [do |-> "hide", tag |-> "public"]>>
    <2>1. Tagging!RemoveTag("public") = (<<[do |-> "untag", tag |-> "public"]>>
                                         \o <<[do |-> "hide", tag |-> "public"]>>) \o <<>>
        BY AccessTagsAre DEF Tagging!RemoveTag, Tagging!Do
    <2> QED BY <2>1, Two
<1> QED BY <1>1, <1>2, <1>3

LEMMA AddTagShape ==
    ASSUME SaneTags, NEW t \in Tags
    PROVE  /\ Tagging!AddTag(t) \in Seq(Tagging!Statements)
           /\ Tagging!AddTag(t) # <<>>
           /\ \A had : Adds(Tagging!AddTag(t), had)
<1> DEFINE s == Tagging!AddTag(t)
<1>0. Tagged(t) \in Tagging!Statements /\ (t \in Tagging!AccessTags => Expose(t) \in Tagging!Statements)
    BY DEF Tagging!Statements, Tagged, Expose
<1>1. CASE t \notin Tagging!AccessTags
    <2>1. Tagging!AddTag(t) = <<Tagged(t)>>
        BY <1>1, AddTagIs
    <2> QED BY <1>1, <2>1 DEF Tagging!Statements, Adds, Tagged
<1>2. CASE t = "lvem"
    <2>1. s = <<Tagged(t), Expose(t)>>
        BY <1>2, AddTagIs
    <2>2. /\ Len(s) = 2 /\ s[1] = Tagged(t) /\ s[2] = Expose(t)
          /\ s \in Seq(Tagging!Statements) /\ s # <<>>
        <3>1. Expose(t) \in Tagging!Statements
            BY <1>0, <1>2, AccessTagsAre
        <3> QED BY <1>0, <2>1, <3>1
    <2> HIDE DEF s
    <2>3. ASSUME NEW had PROVE Adds(s, had)
        BY <2>2 DEF Adds, Tagged, Expose
    <2> QED BY <2>2, <2>3 DEF s
<1>3. CASE t = "public"
    <2>1. s = <<Tagged(t), Expose(t), [do |-> "followPublic", tag |-> t]>>
        BY <1>3, AddTagIs
    <2>2. /\ Len(s) = 3 /\ s[1] = Tagged(t) /\ s[2] = Expose(t)
          /\ s[3] = [do |-> "followPublic", tag |-> t]
          /\ s \in Seq(Tagging!Statements) /\ s # <<>>
        <3>1. [do |-> "followPublic", tag |-> t] \in Tagging!Statements
            BY <1>3, AccessTagsAre DEF Tagging!Statements
        <3>2. Expose(t) \in Tagging!Statements
            BY <1>0, <1>3, AccessTagsAre
        <3> QED BY <1>0, <2>1, <3>1, <3>2
    <2> HIDE DEF s
    <2>3. ASSUME NEW had PROVE Adds(s, had)
        BY <2>2 DEF Adds, Tagged, Expose
    <2> QED BY <2>2, <2>3 DEF s
<1> QED BY <1>1, <1>2, <1>3, AccessTagsAre

LEMMA AddsConcat ==
    ASSUME NEW s \in Seq(Tagging!Statements), NEW u \in Seq(Tagging!Statements), NEW had,
           Adds(s, had), Adds(u, had)
    PROVE  /\ s \o u \in Seq(Tagging!Statements)
           /\ Adds(s \o u, had)
<1> DEFINE both == s \o u
<1>1. /\ both \in Seq(Tagging!Statements)
      /\ Len(both) = Len(s) + Len(u) /\ Len(s) \in Nat /\ Len(u) \in Nat
      /\ \A i \in 1 .. Len(s) : both[i] = s[i]
      /\ \A i \in 1 .. Len(u) : both[Len(s) + i] = u[i]
    BY ConcatProperties, LenProperties
<1>2. ASSUME NEW i \in 1 .. Len(s)
      PROVE /\ both[i].do \in {"tag", "expose", "followPublic"}
            /\ both[i].do = "expose" =>
                 \/ both[i].tag \in had
                 \/ \E j \in 1 .. i - 1 : both[j] = Tagged(both[i].tag)
            /\ both[i].do = "tag" /\ both[i].tag \in Tagging!AccessTags =>
                 \E j \in i + 1 .. Len(both) : both[j] = Expose(both[i].tag)
    BY <1>1 DEF Adds
<1>3. ASSUME NEW k \in 1 .. Len(u)
      PROVE LET i == Len(s) + k
            IN /\ both[i].do \in {"tag", "expose", "followPublic"}
               /\ both[i].do = "expose" =>
                    \/ both[i].tag \in had
                    \/ \E j \in 1 .. i - 1 : both[j] = Tagged(both[i].tag)
               /\ both[i].do = "tag" /\ both[i].tag \in Tagging!AccessTags =>
                    \E j \in i + 1 .. Len(both) : both[j] = Expose(both[i].tag)
    <2> DEFINE i == Len(s) + k
    <2>1. both[i] = u[k]
        BY <1>1
    <2>2. ASSUME NEW j \in 1 .. k - 1 PROVE Len(s) + j \in 1 .. i - 1 /\ both[Len(s) + j] = u[j]
        BY <1>1
    <2>3. ASSUME NEW j \in k + 1 .. Len(u)
          PROVE Len(s) + j \in i + 1 .. Len(both) /\ both[Len(s) + j] = u[j]
        BY <1>1
    <2> HIDE DEF both, i
    <2>4. /\ u[k].do \in {"tag", "expose", "followPublic"}
          /\ u[k].do = "expose" => u[k].tag \in had
                                   \/ \E j \in 1 .. k - 1 : u[j] = Tagged(u[k].tag)
          /\ u[k].do = "tag" /\ u[k].tag \in Tagging!AccessTags =>
                \E j \in k + 1 .. Len(u) : u[j] = Expose(u[k].tag)
        BY DEF Adds
    <2>5. both[i].do = "expose" => \/ both[i].tag \in had
                                  \/ \E j \in 1 .. i - 1 : both[j] = Tagged(both[i].tag)
        BY <2>1, <2>2, <2>4
    <2>6. both[i].do = "tag" /\ both[i].tag \in Tagging!AccessTags =>
                \E j \in i + 1 .. Len(both) : both[j] = Expose(both[i].tag)
        BY <2>1, <2>3, <2>4
    <2> QED BY <2>1, <2>4, <2>5, <2>6 DEF i
<1>4. ASSUME NEW i \in 1 .. Len(both) PROVE i \in 1 .. Len(s) \/ \E k \in 1 .. Len(u) : i = Len(s) + k
    <2>1. CASE i > Len(s)
        <3>1. i - Len(s) \in 1 .. Len(u) /\ i = Len(s) + (i - Len(s))
            BY <1>1, <2>1
        <3> QED BY <3>1
    <2> QED BY <1>1, <2>1
<1> HIDE DEF both
<1>5. Adds(both, had)
    <2>1. SUFFICES ASSUME NEW i \in 1 .. Len(both)
                   PROVE  /\ both[i].do \in {"tag", "expose", "followPublic"}
                          /\ both[i].do = "expose" =>
                               \/ both[i].tag \in had
                               \/ \E j \in 1 .. i - 1 : both[j] = Tagged(both[i].tag)
                          /\ both[i].do = "tag" /\ both[i].tag \in Tagging!AccessTags =>
                               \E j \in i + 1 .. Len(both) : both[j] = Expose(both[i].tag)
        BY DEF Adds
    <2>2. CASE i \in 1 .. Len(s)
        BY <1>2, <2>2
    <2>3. ASSUME NEW k \in 1 .. Len(u), i = Len(s) + k
          PROVE  /\ both[i].do \in {"tag", "expose", "followPublic"}
                 /\ both[i].do = "expose" =>
                      \/ both[i].tag \in had
                      \/ \E j \in 1 .. i - 1 : both[j] = Tagged(both[i].tag)
                 /\ both[i].do = "tag" /\ both[i].tag \in Tagging!AccessTags =>
                      \E j \in i + 1 .. Len(both) : both[j] = Expose(both[i].tag)
        BY <1>3, <2>3
    <2> QED BY <1>4, <2>2, <2>3
<1> QED BY <1>1, <1>5 DEF both

\* The statements after the first one, when that has been run.
LEMMA AddsTail ==
    ASSUME NEW s \in Seq(Tagging!Statements), s # <<>>, NEW had, NEW then, Adds(s, had),
           had \subseteq then, Head(s).do = "tag" => Head(s).tag \in then
    PROVE  Tail(s) \in Seq(Tagging!Statements) /\ Adds(Tail(s), then)
<1>1. /\ Tail(s) \in Seq(Tagging!Statements) /\ Len(Tail(s)) = Len(s) - 1
      /\ \A i \in 1 .. Len(Tail(s)) : Tail(s)[i] = s[i + 1]
      /\ Len(s) \in Nat /\ Head(s) = s[1]
    BY HeadTailProperties, LenProperties
<1>2. SUFFICES ASSUME NEW i \in 1 .. Len(Tail(s))
               PROVE /\ Tail(s)[i].do \in {"tag", "expose", "followPublic"}
                     /\ Tail(s)[i].do = "expose" =>
                          \/ Tail(s)[i].tag \in then
                          \/ \E j \in 1 .. i - 1 : Tail(s)[j] = Tagged(Tail(s)[i].tag)
                     /\ Tail(s)[i].do = "tag" /\ Tail(s)[i].tag \in Tagging!AccessTags =>
                          \E j \in i + 1 .. Len(Tail(s)) : Tail(s)[j] = Expose(Tail(s)[i].tag)
    BY <1>1 DEF Adds
<1>3. /\ i + 1 \in 1 .. Len(s)
      /\ Tail(s)[i] = s[i + 1]
    BY <1>1
<1>4. /\ s[i + 1].do \in {"tag", "expose", "followPublic"}
      /\ s[i + 1].do = "expose" => \/ s[i + 1].tag \in had
                                    \/ \E j \in 1 .. i : s[j] = Tagged(s[i + 1].tag)
      /\ s[i + 1].do = "tag" /\ s[i + 1].tag \in Tagging!AccessTags =>
            \E j \in i + 2 .. Len(s) : s[j] = Expose(s[i + 1].tag)
    BY <1>1, <1>3 DEF Adds
<1>5. ASSUME NEW j \in 1 .. i, s[j] = Tagged(s[i + 1].tag)
      PROVE s[i + 1].tag \in then \/ \E k \in 1 .. i - 1 : Tail(s)[k] = Tagged(s[i + 1].tag)
    <2>1. CASE j = 1
        BY <1>1, <1>5, <2>1 DEF Tagged
    <2>2. CASE j > 1
        <3>1. j - 1 \in 1 .. i - 1 /\ Tail(s)[j - 1] = s[j]
            BY <1>1, <2>2
        <3> QED BY <1>5, <3>1
    <2> QED BY <2>1, <2>2
<1>6. ASSUME NEW j \in i + 2 .. Len(s), s[j] = Expose(s[i + 1].tag)
      PROVE \E k \in i + 1 .. Len(Tail(s)) : Tail(s)[k] = Expose(s[i + 1].tag)
    <2>1. j - 1 \in i + 1 .. Len(Tail(s)) /\ Tail(s)[j - 1] = s[j]
        BY <1>1
    <2> QED BY <1>6, <2>1
<1> QED BY <1>3, <1>4, <1>5, <1>6

LEMMA NewShape ==
    ASSUME SaneTags, NEW given \in Tagging!TagsOfNew, NEW external \in BOOLEAN,
           NEW had \in SUBSET Tags
    PROVE  LET all == given \o IF external THEN Tagging!AddTag(Tagging!LvemTag) ELSE <<>>
           IN  all \in Seq(Tagging!Statements) /\ Adds(all, had)
<1>0. <<>> \in Seq(Tagging!Statements) /\ Adds(<<>>, had)
    BY DEF Adds
<1>1. given \in Seq(Tagging!Statements) /\ Adds(given, had)
    <2>1. CASE given = <<>>
        BY <1>0, <2>1
    <2>2. ASSUME NEW t \in Tags, given = Tagging!AddTag(t) PROVE given \in Seq(Tagging!Statements) /\ Adds(given, had)
        BY <2>2, AddTagShape
    <2>3. ASSUME NEW t \in Tags, NEW u \in Tags, given = Tagging!AddTag(t) \o Tagging!AddTag(u)
          PROVE  given \in Seq(Tagging!Statements) /\ Adds(given, had)
        <3>1. /\ Tagging!AddTag(t) \in Seq(Tagging!Statements) /\ Adds(Tagging!AddTag(t), had)
              /\ Tagging!AddTag(u) \in Seq(Tagging!Statements) /\ Adds(Tagging!AddTag(u), had)
            BY AddTagShape
        <3> QED BY <2>3, <3>1, AddsConcat
    <2> QED BY <2>1, <2>2, <2>3 DEF Tagging!TagsOfNew
<1>2. Tagging!AddTag("lvem") \in Seq(Tagging!Statements) /\ Adds(Tagging!AddTag("lvem"), had)
    BY AddTagShape, AccessTagsAre DEF SaneTags
<1> QED BY <1>0, <1>1, <1>2, AddsConcat

-----------------------------------------------------------------------------
(* The steps.                                                              *)

LEMMA AddsMore ==
    ASSUME NEW s, NEW had, NEW then, Adds(s, had), had \subseteq then
    PROVE  Adds(s, then)
BY DEF Adds

\* A log whose rows and requests a step leaves alone.
LEMMA LogApart ==
    ASSUME NEW l, tags'[l] = tags[l], perms'[l] = perms[l], Tagging!Busy(l)' = Tagging!Busy(l),
           \A v \in Tagging!Busy(l) : todo'[v] = todo[v]
    PROVE  /\ OnlyAdds(l) => OnlyAdds(l)'
           /\ Covered(l) => Covered(l)'
           /\ OneRemoves(l) => OneRemoves(l)'
<1>1. OnlyAdds(l) => OnlyAdds(l)'
    BY DEF OnlyAdds
<1>2. Covered(l) => Covered(l)'
    BY DEF Covered
<1>3. ASSUME NEW w \in Workers, Tagging!Busy(l) = {w}, Takes(todo[w], tags[l], perms[l])
      PROVE  Tagging!Busy(l)' = {w} /\ Takes(todo'[w], tags'[l], perms'[l])
    BY <1>3
<1>4. OneRemoves(l) => OneRemoves(l)'
    BY <1>3 DEF OneRemoves
<1> QED BY <1>1, <1>2, <1>4

LEMMA RemovalsRemove ==
    ASSUME NEW w \in Workers, todo[w] \in Removals
    PROVE  Tagging!Removing(w)
<1>1. Tagging!RemoveTag("lvem")[1].do = "untag" /\ 1 \in DOMAIN Tagging!RemoveTag("lvem")
    BY RemoveTagIs
<1>2. Tagging!RemoveTag("public")[1].do = "untag" /\ 1 \in DOMAIN Tagging!RemoveTag("public")
    BY RemoveTagIs
<1>3. 1 \in DOMAIN todo[w] /\ todo[w][1].do \in {"untag", "hide", "followLvem"}
    BY <1>1, <1>2 DEF Removals, Hide
<1> QED BY <1>3 DEF Tagging!Removing

\* What a request that begins changes about the busy workers.
LEMMA RequestBusy ==
    ASSUME Tagging!TypeOK, NEW w \in Workers, NEW l \in Logs, NEW statements \in Seq(Tagging!Statements),
           Tagging!Request(w, l, statements)
    PROVE  /\ \A v \in Workers : v # w => todo'[v] = todo[v] /\ log'[v] = log[v]
           /\ todo'[w] = statements /\ log'[w] = l
           /\ Tagging!Idle(w)
           /\ Tagging!Busy(l)' = Tagging!Busy(l) \cup (IF statements = <<>> THEN {} ELSE {w})
           /\ w \notin Tagging!Busy(l)
           /\ \A k \in Logs : k # l => Tagging!Busy(k)' = Tagging!Busy(k) /\ w \notin Tagging!Busy(k)
           /\ tags' = tags /\ perms' = perms
<1>1. /\ todo' = [todo EXCEPT ![w] = statements] /\ log' = [log EXCEPT ![w] = l]
      /\ Tagging!Idle(w) /\ tags' = tags /\ perms' = perms
      /\ DOMAIN log = Workers
    BY DEF Tagging!Request, Tagging!TypeOK
<1>2. \A v \in Workers : v # w => todo'[v] = todo[v] /\ log'[v] = log[v]
    BY <1>1 DEF Tagging!Request, Tagging!TypeOK
<1>3. todo'[w] = statements /\ log'[w] = l
    BY <1>1 DEF Tagging!TypeOK
<1>4. \A k \in Logs : w \notin Tagging!Busy(k)
    BY <1>1 DEF Tagging!Busy
<1>5. Tagging!Busy(l)' = Tagging!Busy(l) \cup (IF statements = <<>> THEN {} ELSE {w})
    BY <1>1, <1>2, <1>3 DEF Tagging!Busy, Tagging!Idle
<1>6. \A k \in Logs : k # l => Tagging!Busy(k)' = Tagging!Busy(k)
    BY <1>1, <1>2, <1>3 DEF Tagging!Busy, Tagging!Idle
<1> QED BY <1>1, <1>2, <1>3, <1>4, <1>5, <1>6

LEMMA RequestApart ==
    ASSUME Tagging!TypeOK, NEW w \in Workers, NEW l \in Logs, NEW statements \in Seq(Tagging!Statements),
           Tagging!Request(w, l, statements), NEW k \in Logs, k # l
    PROVE  /\ OnlyAdds(k) => OnlyAdds(k)'
           /\ Covered(k) => Covered(k)'
           /\ OneRemoves(k) => OneRemoves(k)'
<1>1. tags'[k] = tags[k] /\ perms'[k] = perms[k] /\ Tagging!Busy(k)' = Tagging!Busy(k)
    BY RequestBusy
<1>2. \A v \in Tagging!Busy(k) : todo'[v] = todo[v]
    BY RequestBusy DEF Tagging!Busy
<1> QED BY <1>1, <1>2, LogApart

\* A request that adds tags.
LEMMA RequestAdds ==
    ASSUME Tagging!TypeOK, NEW w \in Workers, NEW l \in Logs, NEW statements \in Seq(Tagging!Statements),
           Tagging!Request(w, l, statements), Adds(statements, tags[l])
    PROVE  /\ OnlyAdds(l) => OnlyAdds(l)'
           /\ Covered(l) => Covered(l)'
<1>0. /\ \A v \in Workers : v # w => todo'[v] = todo[v] /\ log'[v] = log[v]
      /\ todo'[w] = statements
      /\ Tagging!Busy(l)' = Tagging!Busy(l) \cup (IF statements = <<>> THEN {} ELSE {w})
      /\ w \notin Tagging!Busy(l)
      /\ tags' = tags /\ perms' = perms
    BY RequestBusy
<1>1. Tagging!Busy(l) \subseteq Workers /\ Tagging!Busy(l)' \subseteq Tagging!Busy(l) \cup {w} /\ Tagging!Busy(l) \subseteq Tagging!Busy(l)'
    BY <1>0 DEF Tagging!Busy
<1>2. \A v \in Tagging!Busy(l) : todo'[v] = todo[v]
    BY <1>0, <1>1
<1>3. ASSUME OnlyAdds(l) PROVE OnlyAdds(l)'
    <2>1. \A v \in Tagging!Busy(l)' : Adds(todo'[v], tags'[l])
        BY <1>0, <1>1, <1>2, <1>3 DEF OnlyAdds
    <2> QED BY <1>0, <1>3, <2>1 DEF OnlyAdds
<1>4. ASSUME Covered(l) PROVE Covered(l)'
    BY <1>0, <1>1, <1>2, <1>4 DEF Covered
<1> QED BY <1>3, <1>4

LEMMA CreateTags ==
    ASSUME SaneTags, TagsInv, Tagging!TypeOK', NEW w \in Workers, Tagging!Create(w)
    PROVE  TagsInv'
<1>1. PICK l \in Logs \ created, given \in Tagging!TagsOfNew, external \in BOOLEAN :
        /\ Tagging!Request(w, l, given \o IF external THEN Tagging!AddTag(Tagging!LvemTag) ELSE <<>>)
        /\ created' = created \cup {l}
        /\ UNCHANGED <<removed, disturbed>>
    BY DEF Tagging!Create
<1> DEFINE statements == given \o IF external THEN Tagging!AddTag(Tagging!LvemTag) ELSE <<>>
<1>2. tags[l] \in SUBSET Tags /\ Tagging!TypeOK
    BY DEF TagsInv, Tagging!TypeOK
<1>3. statements \in Seq(Tagging!Statements) /\ Adds(statements, tags[l])
    BY <1>2, NewShape
<1>4. Tagging!Busy(l) = {}
    BY <1>1 DEF TagsInv, Tagging!TypeOK, Tagging!Busy
<1>5. Tagging!Request(w, l, statements)
    BY <1>1
<1> HIDE DEF statements
<1>6. /\ OnlyAdds(l) => OnlyAdds(l)'
      /\ Covered(l) => Covered(l)'
    BY <1>2, <1>3, <1>5, RequestAdds
<1>7. ~ OneRemoves(l)
    BY <1>4 DEF OneRemoves
<1>20. ASSUME NEW k \in Logs, k \notin removed' PROVE OnlyAdds(k)'
    <2>1. OnlyAdds(k) /\ k \notin removed
        BY <1>1, <1>20 DEF TagsInv
    <2>2. CASE k = l
        BY <1>1, <1>6, <2>1, <2>2, <1>20
    <2>3. CASE k # l
        BY <1>2, <1>3, <1>5, <2>1, <2>3, RequestApart
    <2> QED BY <2>2, <2>3
<1>21. ASSUME NEW k \in Logs, k \notin disturbed'
       PROVE  (OnlyAdds(k)' /\ Covered(k)') \/ OneRemoves(k)'
    <2>1. (OnlyAdds(k) /\ Covered(k)) \/ OneRemoves(k)
        BY <1>1, <1>21 DEF TagsInv
    <2>2. CASE k = l
        BY <1>1, <1>6, <1>7, <2>1, <2>2, <1>21
    <2>3. CASE k # l
        BY <1>2, <1>3, <1>5, <2>1, <2>3, RequestApart
    <2> QED BY <2>2, <2>3
<1> QED BY <1>20, <1>21 DEF TagsInv

LEMMA PostTagTags ==
    ASSUME SaneTags, TagsInv, Tagging!TypeOK', NEW w \in Workers, Tagging!PostTag(w)
    PROVE  TagsInv'
<1>1. PICK l \in created :
        /\ \E t \in Tags \ tags[l] : Tagging!Request(w, l, Tagging!AddTag(t))
        /\ disturbed' = disturbed \cup {k \in {l} : \E v \in Tagging!Busy(k) : Tagging!Removing(v)}
    BY DEF Tagging!PostTag
<1>2. PICK t \in Tags \ tags[l] : Tagging!Request(w, l, Tagging!AddTag(t))
    BY <1>1
<1> DEFINE statements == Tagging!AddTag(t)
<1>3. tags[l] \in SUBSET Tags /\ Tagging!TypeOK /\ l \in Logs
    BY DEF TagsInv, Tagging!TypeOK
<1>4. statements \in Seq(Tagging!Statements) /\ Adds(statements, tags[l]) /\ Tagging!Request(w, l, statements)
    BY <1>2, <1>3, AddTagShape
<1> HIDE DEF statements
<1>5. /\ OnlyAdds(l) => OnlyAdds(l)'
      /\ Covered(l) => Covered(l)'
    BY <1>3, <1>4, RequestAdds
<1>6. l \notin disturbed' => ~ OneRemoves(l)
    <2>1. l \notin disturbed' => \A v \in Tagging!Busy(l) : ~ Tagging!Removing(v)
        BY <1>1
    <2> QED BY <2>1, RemovalsRemove DEF OneRemoves, Takes
<1>8. removed' = removed /\ disturbed \subseteq disturbed'
    BY <1>1 DEF Tagging!PostTag
<1>20. ASSUME NEW k \in Logs, k \notin removed' PROVE OnlyAdds(k)'
    <2>1. OnlyAdds(k) /\ k \notin removed
        BY <1>8, <1>20 DEF TagsInv
    <2>2. CASE k = l
        BY <1>5, <1>8, <2>1, <2>2, <1>20
    <2>3. CASE k # l
        BY <1>3, <1>4, <2>1, <2>3, RequestApart
    <2> QED BY <2>2, <2>3
<1>21. ASSUME NEW k \in Logs, k \notin disturbed'
       PROVE  (OnlyAdds(k)' /\ Covered(k)') \/ OneRemoves(k)'
    <2>1. (OnlyAdds(k) /\ Covered(k)) \/ OneRemoves(k)
        BY <1>8, <1>21 DEF TagsInv
    <2>2. CASE k = l
        BY <1>5, <1>6, <1>8, <2>1, <2>2, <1>21
    <2>3. CASE k # l
        BY <1>3, <1>4, <2>1, <2>3, RequestApart
    <2> QED BY <2>2, <2>3
<1> QED BY <1>20, <1>21 DEF TagsInv

LEMMA DeleteTagTags ==
    ASSUME SaneTags, TagsInv, Tagging!TypeOK', NEW w \in Workers, Tagging!DeleteTag(w)
    PROVE  TagsInv'
<1>1. PICK l \in created :
        /\ \E t \in tags[l] : Tagging!Request(w, l, Tagging!RemoveTag(t))
        /\ removed' = removed \cup {l}
        /\ disturbed' = disturbed \cup {k \in {l} : Tagging!Busy(k) # {}}
    BY DEF Tagging!DeleteTag
<1>2. PICK t \in tags[l] : Tagging!Request(w, l, Tagging!RemoveTag(t))
    BY <1>1
<1> DEFINE statements == Tagging!RemoveTag(t)
<1>3. Tagging!TypeOK /\ l \in Logs /\ t \in Tags
    BY DEF TagsInv, Tagging!TypeOK
<1>4. statements \in Removals /\ Head(statements) = [do |-> "untag", tag |-> t]
    <2>1. CASE t \notin Tagging!AccessTags
        BY <1>3, <2>1, RemoveTagIs DEF Removals
    <2>2. CASE t = "lvem"
        BY <2>2, RemoveTagIs DEF Removals
    <2>3. CASE t = "public"
        BY <2>3, RemoveTagIs DEF Removals
    <2> QED BY <2>1, <2>2, <2>3, AccessTagsAre
<1>5. statements \in Seq(Tagging!Statements) /\ statements # <<>>
    <2>1. /\ \A x \in Tags : [do |-> "untag", tag |-> x] \in Tagging!Statements
          /\ \A x \in Tagging!AccessTags : [do |-> "hide", tag |-> x] \in Tagging!Statements
          /\ [do |-> "followLvem", tag |-> "lvem"] \in Tagging!Statements
          /\ "lvem" \in Tags /\ "public" \in Tags
          /\ "lvem" \in Tagging!AccessTags /\ "public" \in Tagging!AccessTags
        BY AccessTagsAre DEF Tagging!Statements, SaneTags
    <2>2. CASE t \notin Tagging!AccessTags
        <3>1. statements = <<[do |-> "untag", tag |-> t]>>
            BY <2>2, RemoveTagIs
        <3>2. [do |-> "untag", tag |-> t] \in Tagging!Statements
            BY <1>3, <2>1
        <3> QED BY <3>1, <3>2
    <2>3. CASE t = "lvem"
        <3> DEFINE a == [do |-> "untag", tag |-> "lvem"]
                   b == [do |-> "hide", tag |-> "lvem"]
                   c == [do |-> "followLvem", tag |-> "lvem"]
        <3>1. statements = <<a, b, c>>
            BY <2>3, RemoveTagIs
        <3>2. a \in Tagging!Statements /\ b \in Tagging!Statements /\ c \in Tagging!Statements
            BY <2>1
        <3> HIDE DEF a, b, c, statements
        <3> QED BY <3>1, <3>2
    <2>4. CASE t = "public"
        <3> DEFINE a == [do |-> "untag", tag |-> "public"]
                   b == [do |-> "hide", tag |-> "public"]
        <3>1. statements = <<a, b>>
            BY <2>4, RemoveTagIs
        <3>2. a \in Tagging!Statements /\ b \in Tagging!Statements
            BY <2>1
        <3> HIDE DEF a, b, statements
        <3> QED BY <3>1, <3>2
    <2> QED BY <2>2, <2>3, <2>4, AccessTagsAre
<1>6. Tagging!Request(w, l, statements)
    BY <1>2
<1> HIDE DEF statements
<1>7. l \notin disturbed' => OneRemoves(l)'
    <2>1. SUFFICES ASSUME l \notin disturbed' PROVE OneRemoves(l)'
        OBVIOUS
    <2>2. Tagging!Busy(l) = {} /\ l \notin disturbed
        BY <1>1, <2>1
    <2>3. OnlyAdds(l) /\ Covered(l)
        BY <1>3, <2>2 DEF TagsInv, OneRemoves
    <2>4. perms[l] = tags[l] \cap Tagging!AccessTags
        BY <1>3, <2>2, <2>3 DEF OnlyAdds, Covered, Tagging!TypeOK
    <2>5. Tagging!Busy(l)' = {w} /\ todo'[w] = statements /\ tags' = tags /\ perms' = perms
        BY <1>3, <1>5, <1>6, <2>2, RequestBusy
    <2>6. Takes(todo'[w], tags'[l], perms'[l])
        BY <1>4, <2>4, <2>5 DEF Takes
    <2> QED BY <2>5, <2>6 DEF OneRemoves
<1>20. ASSUME NEW k \in Logs, k \notin removed' PROVE OnlyAdds(k)'
    <2>1. OnlyAdds(k) /\ k \notin removed
        BY <1>1, <1>20 DEF TagsInv
    <2>2. CASE k = l
        BY <1>1, <2>1, <2>2, <1>20
    <2>3. CASE k # l
        BY <1>3, <1>5, <1>6, <2>1, <2>3, RequestApart
    <2> QED BY <2>2, <2>3
<1>21. ASSUME NEW k \in Logs, k \notin disturbed'
       PROVE  (OnlyAdds(k)' /\ Covered(k)') \/ OneRemoves(k)'
    <2>1. (OnlyAdds(k) /\ Covered(k)) \/ OneRemoves(k)
        BY <1>1, <1>21 DEF TagsInv
    <2>2. CASE k = l
        BY <1>1, <1>7, <2>1, <2>2, <1>21
    <2>3. CASE k # l
        BY <1>3, <1>5, <1>6, <2>1, <2>3, RequestApart
    <2> QED BY <2>2, <2>3
<1> QED BY <1>20, <1>21 DEF TagsInv


LEMMA CrashTags ==
    ASSUME SaneTags, TagsInv, Tagging!TypeOK', NEW w \in Workers, Tagging!Crash(w)
    PROVE  TagsInv'
<1>1. /\ tags' = tags /\ perms' = perms /\ log' = log /\ removed' = removed
      /\ disturbed' = disturbed \cup {log[w]}
      /\ todo' = [todo EXCEPT ![w] = <<>>]
      /\ Tagging!TypeOK
    BY DEF Tagging!Crash, TagsInv
<1>2. \A v \in Workers : v # w => todo'[v] = todo[v]
    BY <1>1 DEF Tagging!TypeOK
<1>3. todo'[w] = <<>>
    BY <1>1 DEF Tagging!TypeOK
<1>4. ASSUME NEW k \in Logs, k # log[w] PROVE Tagging!Busy(k)' = Tagging!Busy(k) /\ w \notin Tagging!Busy(k)
    BY <1>1, <1>2, <1>4 DEF Tagging!Busy, Tagging!Idle
<1>5. ASSUME NEW k \in Logs, k \notin removed' PROVE OnlyAdds(k)'
    <2>1. OnlyAdds(k)
        BY <1>1, <1>5 DEF TagsInv
    <2>2. Tagging!Busy(k)' \subseteq Tagging!Busy(k) /\ \A v \in Tagging!Busy(k)' : todo'[v] = todo[v]
        BY <1>1, <1>2, <1>3 DEF Tagging!Busy, Tagging!Idle
    <2> QED BY <1>1, <2>1, <2>2 DEF OnlyAdds
<1>6. ASSUME NEW k \in Logs, k \notin disturbed'
      PROVE  (OnlyAdds(k)' /\ Covered(k)') \/ OneRemoves(k)'
    <2>1. k # log[w] /\ k \notin disturbed
        BY <1>1, <1>6
    <2>2. (OnlyAdds(k) /\ Covered(k)) \/ OneRemoves(k)
        BY <2>1 DEF TagsInv
    <2>3. Tagging!Busy(k)' = Tagging!Busy(k) /\ \A v \in Tagging!Busy(k) : todo'[v] = todo[v]
        BY <1>2, <1>4, <2>1 DEF Tagging!Busy
    <2> QED BY <1>1, <2>2, <2>3, LogApart
<1> QED BY <1>5, <1>6 DEF TagsInv

LEMMA FollowIs ==
    ASSUME SaneTags, NEW s \in Tagging!Statements, NEW l \in Logs,
           s.do \in {"tag", "expose", "followPublic"}
    PROVE  /\ Tagging!Follow(s, l) \in Seq(Tagging!Statements)
           /\ \A had : Adds(Tagging!Follow(s, l), had)
<1>1. Tagging!Follow(s, l) \in {<<>>, Tagging!AddTag("lvem")}
    BY DEF Tagging!Follow
<1>2. <<>> \in Seq(Tagging!Statements) /\ \A had : Adds(<<>>, had)
    BY DEF Adds
<1>3. "lvem" \in Tags
    BY AccessTagsAre DEF SaneTags
<1>4. Tagging!AddTag("lvem") \in Seq(Tagging!Statements) /\ \A had : Adds(Tagging!AddTag("lvem"), had)
    BY <1>3, AddTagShape
<1>5. CASE Tagging!Follow(s, l) = <<>>
    BY <1>2, <1>5
<1>6. CASE Tagging!Follow(s, l) = Tagging!AddTag("lvem")
    BY <1>4, <1>6
<1> QED BY <1>1, <1>5, <1>6

\* What running a statement changes.
LEMMA RunIs ==
    ASSUME Tagging!TypeOK, NEW w \in Workers, Tagging!RunStatement(w)
    PROVE  LET s == Head(todo[w])
               l == log[w]
           IN  /\ todo[w] # <<>> /\ todo[w] \in Seq(Tagging!Statements) /\ l \in Logs
               /\ s \in Tagging!Statements /\ w \in Tagging!Busy(l)
               /\ tags'[l] = CASE s.do = "tag"   -> tags[l] \cup {s.tag}
                               [] s.do = "untag" -> tags[l] \ {s.tag}
                               [] OTHER          -> tags[l]
               /\ perms'[l] = CASE s.do = "expose" -> perms[l] \cup {s.tag}
                                [] s.do = "hide"   -> perms[l] \ {s.tag}
                                [] OTHER           -> perms[l]
               /\ todo'[w] = Tagging!Follow(s, l) \o Tail(todo[w])
               /\ \A v \in Workers : v # w => todo'[v] = todo[v]
               /\ \A k \in Logs : k # l => tags'[k] = tags[k] /\ perms'[k] = perms[k]
               /\ log' = log /\ removed' = removed /\ disturbed' = disturbed
               /\ \A v \in Workers : v # w => \A k \in Logs : v \in Tagging!Busy(k)' <=> v \in Tagging!Busy(k)
               /\ \A k \in Logs : k # l => w \notin Tagging!Busy(k) /\ w \notin Tagging!Busy(k)'
<1> DEFINE s == Head(todo[w])
           l == log[w]
<1>1. todo[w] # <<>> /\ todo[w] \in Seq(Tagging!Statements) /\ l \in Logs /\ w \in Tagging!Busy(l)
    BY DEF Tagging!TypeOK, Tagging!RunStatement, Tagging!Idle, Tagging!Busy
<1>2. s \in Tagging!Statements
    BY <1>1
<1>3. /\ todo' = [todo EXCEPT ![w] = Tagging!Follow(s, l) \o Tail(todo[w])]
      /\ log' = log /\ removed' = removed /\ disturbed' = disturbed
    BY DEF Tagging!RunStatement, Tagging!TypeOK
<1>4. todo'[w] = Tagging!Follow(s, l) \o Tail(todo[w]) /\ \A v \in Workers : v # w => todo'[v] = todo[v]
    BY <1>3 DEF Tagging!TypeOK
<1>5. /\ tags'[l] = CASE s.do = "tag"   -> tags[l] \cup {s.tag}
                      [] s.do = "untag" -> tags[l] \ {s.tag}
                      [] OTHER          -> tags[l]
      /\ \A k \in Logs : k # l => tags'[k] = tags[k]
    BY <1>1 DEF Tagging!RunStatement, Tagging!TypeOK
<1>6. /\ perms'[l] = CASE s.do = "expose" -> perms[l] \cup {s.tag}
                       [] s.do = "hide"   -> perms[l] \ {s.tag}
                       [] OTHER           -> perms[l]
      /\ \A k \in Logs : k # l => perms'[k] = perms[k]
    BY <1>1 DEF Tagging!RunStatement, Tagging!TypeOK
<1>7. \A v \in Workers : v # w => \A k \in Logs : v \in Tagging!Busy(k)' <=> v \in Tagging!Busy(k)
    BY <1>3, <1>4 DEF Tagging!Busy, Tagging!Idle
<1>8. \A k \in Logs : k # l => w \notin Tagging!Busy(k) /\ w \notin Tagging!Busy(k)'
    BY <1>3 DEF Tagging!Busy
<1> QED BY <1>1, <1>2, <1>3, <1>4, <1>5, <1>6, <1>7, <1>8

\* A worker that only adds runs a statement.
LEMMA RunAdds ==
    ASSUME SaneTags, Tagging!TypeOK, Tagging!TypeOK', NEW w \in Workers, Tagging!RunStatement(w), OnlyAdds(log[w])
    PROVE  LET l == log[w]
           IN  OnlyAdds(l)' /\ (Covered(l) => Covered(l)')
<1> DEFINE s == Head(todo[w])
           l == log[w]
           rest == Tail(todo[w])
           follow == Tagging!Follow(s, l)
<1>1. /\ todo[w] # <<>> /\ todo[w] \in Seq(Tagging!Statements) /\ l \in Logs
      /\ s \in Tagging!Statements /\ w \in Tagging!Busy(l)
    BY RunIs
<1>2. /\ tags'[l] = CASE s.do = "tag"   -> tags[l] \cup {s.tag}
                      [] s.do = "untag" -> tags[l] \ {s.tag}
                      [] OTHER          -> tags[l]
      /\ perms'[l] = CASE s.do = "expose" -> perms[l] \cup {s.tag}
                       [] s.do = "hide"   -> perms[l] \ {s.tag}
                       [] OTHER           -> perms[l]
      /\ todo'[w] = follow \o rest
      /\ log' = log
    BY RunIs
<1>3. \A v \in Workers : v # w => todo'[v] = todo[v] /\ (v \in Tagging!Busy(l)' <=> v \in Tagging!Busy(l))
    BY <1>1, RunIs
<1>4. Adds(todo[w], tags[l]) /\ perms[l] \subseteq tags[l]
    BY <1>1 DEF OnlyAdds
<1>5. /\ Len(todo[w]) \in Nat /\ Len(todo[w]) >= 1 /\ s = todo[w][1]
      /\ rest \in Seq(Tagging!Statements) /\ Len(rest) = Len(todo[w]) - 1
      /\ \A i \in 1 .. Len(rest) : rest[i] = todo[w][i + 1]
    BY <1>1, HeadTailProperties, LenProperties, EmptySeq
<1> HIDE DEF s, l, rest, follow
<1>6. /\ s.do \in {"tag", "expose", "followPublic"}
      /\ s.do = "expose" => s.tag \in tags[l]
      /\ s.do = "tag" /\ s.tag \in Tagging!AccessTags =>
            \E j \in 2 .. Len(todo[w]) : todo[w][j] = Expose(s.tag)
    BY <1>4, <1>5 DEF Adds
<1>7. tags[l] \subseteq tags'[l] /\ (s.do = "tag" => s.tag \in tags'[l])
    BY <1>2, <1>6
<1>8. perms[l] \subseteq perms'[l] /\ (s.do = "expose" => s.tag \in perms'[l])
      /\ perms'[l] \subseteq tags'[l]
    BY <1>2, <1>4, <1>6
<1>9. rest \in Seq(Tagging!Statements) /\ Adds(rest, tags'[l])
    BY <1>1, <1>4, <1>7, AddsTail DEF s, rest
<1>10. follow \in Seq(Tagging!Statements) /\ Adds(follow, tags'[l])
    BY <1>1, <1>6, FollowIs DEF follow
<1>11. Adds(todo'[w], tags'[l])
    BY <1>2, <1>9, <1>10, AddsConcat
<1>12. OnlyAdds(l)'
    <2>1. l' = l
        BY <1>2 DEF l
    <2>2. ASSUME NEW v \in Workers, v \in Tagging!Busy(l)' PROVE Adds(todo'[v], tags'[l])
        <3>1. CASE v = w
            BY <1>11, <3>1
        <3>2. CASE v # w
            <4>1. v \in Tagging!Busy(l) /\ todo'[v] = todo[v]
                BY <1>3, <2>2, <3>2
            <4>2. Adds(todo[v], tags[l])
                BY <4>1 DEF OnlyAdds, l
            <4> QED BY <1>7, <4>1, <4>2, AddsMore
        <3> QED BY <3>1, <3>2
    <2>3. Tagging!Busy(l)' \subseteq Workers
        BY DEF Tagging!Busy
    <2> QED BY <1>8, <2>1, <2>2, <2>3 DEF OnlyAdds
<1>13. ASSUME NEW t, NEW j \in 2 .. Len(todo[w]), todo[w][j] = Expose(t)
       PROVE  w \in Tagging!Busy(l)' /\ \E i \in 1 .. Len(todo'[w]) : todo'[w][i] = Expose(t)
    <2>1. /\ Len(todo'[w]) = Len(follow) + Len(rest) /\ Len(follow) \in Nat
          /\ \A i \in 1 .. Len(follow) + Len(rest) :
                todo'[w][i] = IF i <= Len(follow) THEN follow[i] ELSE rest[i - Len(follow)]
        BY <1>2, <1>9, <1>10, ConcatProperties, LenProperties
    <2>2. j - 1 \in 1 .. Len(rest) /\ rest[j - 1] = Expose(t)
        BY <1>5, <1>13
    <2> DEFINE i == Len(follow) + (j - 1)
    <2>3. i \in 1 .. Len(todo'[w]) /\ i - Len(follow) = j - 1 /\ ~ (i <= Len(follow))
        BY <1>5, <2>1, <2>2
    <2>4. todo'[w][i] = Expose(t)
        BY <2>1, <2>2, <2>3
    <2>5. todo'[w] # <<>>
        BY <2>3
    <2>6. w \in Tagging!Busy(l)'
        BY <1>2, <2>5 DEF Tagging!Busy, Tagging!Idle, l
    <2> QED BY <2>3, <2>4, <2>6
<1>14. ASSUME Covered(l) PROVE Covered(l)'
    <2>0. l' = l
        BY <1>2 DEF l
    <2>1. SUFFICES ASSUME NEW t \in tags'[l], t \in Tagging!AccessTags, t \notin perms'[l]
                   PROVE  \E v \in Tagging!Busy(l)' : \E i \in 1 .. Len(todo'[v]) : todo'[v][i] = Expose(t)
        BY <2>0 DEF Covered
    <2>2. CASE t \notin tags[l]
        <3>1. s.do = "tag" /\ s.tag = t
            BY <1>2, <1>6, <2>1, <2>2
        <3> QED BY <1>6, <1>13, <2>1, <3>1
    <2>3. CASE t \in tags[l]
        <3>1. PICK v \in Tagging!Busy(l) : \E i \in 1 .. Len(todo[v]) : todo[v][i] = Expose(t)
            BY <1>8, <1>14, <2>1, <2>3 DEF Covered
        <3>2. PICK i \in 1 .. Len(todo[v]) : todo[v][i] = Expose(t)
            BY <3>1
        <3>3. CASE v # w
            <4>1. v \in Workers
                BY DEF Tagging!Busy
            <4>2. v \in Tagging!Busy(l)' /\ todo'[v] = todo[v]
                BY <1>3, <3>3, <4>1
            <4> QED BY <3>2, <4>2
        <3>4. CASE v = w /\ i = 1
            BY <1>5, <1>8, <2>1, <3>2, <3>4 DEF Expose
        <3>5. CASE v = w /\ i # 1
            <4>1. i \in 2 .. Len(todo[w])
                BY <1>5, <3>5
            <4> QED BY <1>13, <3>2, <3>5, <4>1
        <3> QED BY <3>3, <3>4, <3>5
    <2> QED BY <2>2, <2>3
<1> QED BY <1>12, <1>14 DEF l

\* The worker that removes a tag runs a statement.
LEMMA RunRemoves ==
    ASSUME SaneTags, Tagging!TypeOK, Tagging!TypeOK', NEW w \in Workers, Tagging!RunStatement(w), OneRemoves(log[w])
    PROVE  LET l == log[w]
           IN  (OnlyAdds(l)' /\ Covered(l)') \/ OneRemoves(l)'
<1> DEFINE s == Head(todo[w])
           l == log[w]
           rest == Tail(todo[w])
           follow == Tagging!Follow(s, l)
<1>1. /\ l \in Logs /\ w \in Tagging!Busy(l)
      /\ todo[w] # <<>>
    BY RunIs
<1>2. /\ tags'[l] = CASE s.do = "tag"   -> tags[l] \cup {s.tag}
                      [] s.do = "untag" -> tags[l] \ {s.tag}
                      [] OTHER          -> tags[l]
      /\ perms'[l] = CASE s.do = "expose" -> perms[l] \cup {s.tag}
                       [] s.do = "hide"   -> perms[l] \ {s.tag}
                       [] OTHER           -> perms[l]
      /\ todo'[w] = follow \o rest
      /\ log' = log
    BY RunIs
<1>3. Tagging!Busy(l) = {w} /\ todo[w] \in Removals /\ Takes(todo[w], tags[l], perms[l])
    BY <1>1 DEF OneRemoves, Takes
<1>4. tags[l] \in SUBSET Tags /\ perms[l] \in SUBSET Tagging!AccessTags
    BY <1>1 DEF Tagging!TypeOK
<1>5. \A v \in Workers : v # w => v \notin Tagging!Busy(l)'
    <2>1. \A v \in Workers : v # w => (v \in Tagging!Busy(l)' <=> v \in Tagging!Busy(l))
        BY <1>1, RunIs
    <2> QED BY <1>3, <2>1
<1>6. Tagging!Busy(l)' = IF todo'[w] = <<>> THEN {} ELSE {w}
    <2>1. w \in Tagging!Busy(l)' <=> todo'[w] # <<>>
        BY <1>2 DEF Tagging!Busy, Tagging!Idle
    <2>2. Tagging!Busy(l)' \subseteq Workers
        BY DEF Tagging!Busy
    <2> QED BY <1>5, <2>1, <2>2
<1> SUFFICES (OnlyAdds(l)' /\ Covered(l)') \/ OneRemoves(l)'
    OBVIOUS
<1> HIDE DEF s, l, rest, follow
<1>7. l' = l
    BY <1>2 DEF l
<1>8. ASSUME todo'[w] = <<>>, perms'[l] = tags'[l] \cap Tagging!AccessTags
      PROVE  OnlyAdds(l)' /\ Covered(l)'
    BY <1>6, <1>7, <1>8 DEF OnlyAdds, Covered
<1>9. ASSUME todo'[w] # <<>>, Takes(todo'[w], tags'[l], perms'[l])
      PROVE  OneRemoves(l)'
    BY <1>6, <1>7, <1>9 DEF OneRemoves
<1>10. ASSUME NEW t \in Tags \ Tagging!AccessTags, todo[w] = <<[do |-> "untag", tag |-> t]>>
       PROVE  OnlyAdds(l)' /\ Covered(l)'
    <2>1. s = [do |-> "untag", tag |-> t] /\ rest = <<>> /\ follow = <<>>
        BY <1>10 DEF s, rest, follow, Tagging!Follow
    <2>2. todo'[w] = <<>> /\ tags'[l] = tags[l] \ {t} /\ perms'[l] = perms[l]
        BY <1>2, <2>1
    <2>3. perms[l] = tags[l] \cap Tagging!AccessTags
        <3>1. Head(todo[w]).do # "hide"
            BY <2>1 DEF s
        <3> QED BY <1>3, <3>1 DEF Takes
    <2> QED BY <1>8, <1>10, <2>2, <2>3
<1>11. CASE todo[w] = Tagging!RemoveTag("lvem")
    <2>0. todo[w] = <<[do |-> "untag", tag |-> "lvem"], [do |-> "hide", tag |-> "lvem"],
                     [do |-> "followLvem", tag |-> "lvem"]>>
        BY <1>11, RemoveTagIs
    <2>1. /\ s = [do |-> "untag", tag |-> "lvem"]
          /\ rest = <<[do |-> "hide", tag |-> "lvem"], [do |-> "followLvem", tag |-> "lvem"]>>
          /\ follow = <<>>
        <3>1. s = [do |-> "untag", tag |-> "lvem"]
            BY <2>0 DEF s
        <3>2. rest = <<[do |-> "hide", tag |-> "lvem"], [do |-> "followLvem", tag |-> "lvem"]>>
            BY <2>0 DEF rest
        <3> QED BY <3>1, <3>2 DEF follow, Tagging!Follow, Hide
    <2>2. todo'[w] = rest /\ tags'[l] = tags[l] \ {"lvem"} /\ perms'[l] = perms[l]
        BY <1>2, <2>1
    <2>3. perms[l] = tags[l] \cap Tagging!AccessTags
        <3>1. Head(todo[w]).do # "hide"
            BY <2>1 DEF s
        <3> QED BY <1>3, <3>1 DEF Takes
    <2>4. rest \in Removals /\ rest # <<>> /\ Head(rest) = [do |-> "hide", tag |-> "lvem"]
        BY <2>1 DEF Removals
    <2>5. Takes(rest, tags'[l], perms'[l])
        BY <2>2, <2>3, <2>4 DEF Takes
    <2> QED BY <1>9, <2>2, <2>4, <2>5
<1>12. CASE todo[w] = Tagging!RemoveTag("public")
    <2>0. todo[w] = <<[do |-> "untag", tag |-> "public"], [do |-> "hide", tag |-> "public"]>>
        BY <1>12, RemoveTagIs
    <2>1. /\ s = [do |-> "untag", tag |-> "public"]
          /\ rest = Hide("public")
          /\ follow = <<>>
        <3>1. s = [do |-> "untag", tag |-> "public"]
            BY <2>0 DEF s
        <3>2. rest = <<[do |-> "hide", tag |-> "public"]>>
            BY <2>0 DEF rest
        <3> QED BY <3>1, <3>2 DEF follow, Tagging!Follow, Hide
    <2>2. todo'[w] = rest /\ tags'[l] = tags[l] \ {"public"} /\ perms'[l] = perms[l]
        BY <1>2, <2>1 DEF Hide
    <2>3. perms[l] = tags[l] \cap Tagging!AccessTags
        <3>1. Head(todo[w]).do # "hide"
            BY <2>1 DEF s
        <3> QED BY <1>3, <3>1 DEF Takes
    <2>4. rest \in Removals /\ rest # <<>> /\ Head(rest) = [do |-> "hide", tag |-> "public"]
        BY <2>1 DEF Removals, Hide
    <2>5. Takes(rest, tags'[l], perms'[l])
        BY <2>2, <2>3, <2>4 DEF Takes
    <2> QED BY <1>9, <2>2, <2>4, <2>5
<1>13. CASE todo[w] = Hide("public")
    <2>1. s = [do |-> "hide", tag |-> "public"] /\ rest = <<>> /\ follow = <<>>
        BY <1>13 DEF s, rest, follow, Tagging!Follow, Hide
    <2>2. todo'[w] = <<>> /\ tags'[l] = tags[l] /\ perms'[l] = perms[l] \ {"public"}
        BY <1>2, <2>1
    <2>3. perms[l] \ {"public"} = tags[l] \cap Tagging!AccessTags
        BY <1>3, <2>1 DEF Takes, s
    <2> QED BY <1>8, <2>2, <2>3
<1>14. CASE todo[w] = <<[do |-> "hide", tag |-> "lvem"], [do |-> "followLvem", tag |-> "lvem"]>>
    <2>1. /\ s = [do |-> "hide", tag |-> "lvem"]
          /\ rest = <<[do |-> "followLvem", tag |-> "lvem"]>>
          /\ follow = <<>>
        BY <1>14 DEF s, rest, follow, Tagging!Follow
    <2>2. todo'[w] = rest /\ tags'[l] = tags[l] /\ perms'[l] = perms[l] \ {"lvem"}
        BY <1>2, <2>1
    <2>3. perms[l] \ {"lvem"} = tags[l] \cap Tagging!AccessTags
        BY <1>3, <2>1 DEF Takes, s
    <2>4. rest \in Removals /\ rest # <<>> /\ Head(rest) = [do |-> "followLvem", tag |-> "lvem"]
        BY <2>1 DEF Removals
    <2>5. Takes(rest, tags'[l], perms'[l])
        BY <2>2, <2>3, <2>4 DEF Takes
    <2> QED BY <1>9, <2>2, <2>4, <2>5
<1>15. CASE todo[w] = <<[do |-> "followLvem", tag |-> "lvem"]>>
    <2>1. s = [do |-> "followLvem", tag |-> "lvem"] /\ rest = <<>>
        BY <1>15 DEF s, rest
    <2>2. tags'[l] = tags[l] /\ perms'[l] = perms[l]
        BY <1>2, <2>1
    <2>3. perms[l] = tags[l] \cap Tagging!AccessTags
        <3>1. Head(todo[w]).do # "hide"
            BY <2>1 DEF s
        <3> QED BY <1>3, <3>1 DEF Takes
    <2>4. CASE "public" \in tags[l]
        <3>1. follow = <<>>
            BY <2>1, <2>4 DEF follow, Tagging!Follow
        <3>2. todo'[w] = <<>>
            BY <1>2, <2>1, <3>1
        <3> QED BY <1>8, <2>2, <2>3, <3>2
    <2>5. CASE "public" \notin tags[l]
        <3>1. follow = <<[do |-> "untag", tag |-> "public"], [do |-> "hide", tag |-> "public"]>>
            BY <2>1, <2>5, RemoveTagIs DEF follow, Tagging!Follow
        <3>2. todo'[w] = follow
            BY <1>2, <2>1, <3>1
        <3>3. follow \in Removals /\ follow # <<>> /\ Head(follow).do = "untag"
            BY <3>1, RemoveTagIs DEF Removals
        <3>4. Takes(follow, tags'[l], perms'[l])
            BY <2>2, <2>3, <3>3 DEF Takes
        <3> QED BY <1>9, <3>2, <3>3, <3>4
    <2> QED BY <2>4, <2>5
<1> QED BY <1>3, <1>10, <1>11, <1>12, <1>13, <1>14, <1>15 DEF Removals

LEMMA RunTags ==
    ASSUME SaneTags, TagsInv, Tagging!TypeOK', NEW w \in Workers, Tagging!RunStatement(w)
    PROVE  TagsInv'
<1>1. Tagging!TypeOK /\ removed' = removed /\ disturbed' = disturbed /\ log[w] \in Logs
    BY RunIs DEF TagsInv
<1>0. /\ \A k \in Logs : k # log[w] => tags'[k] = tags[k] /\ perms'[k] = perms[k]
      /\ \A v \in Workers : v # w => todo'[v] = todo[v]
      /\ \A v \in Workers : v # w => \A k \in Logs : v \in Tagging!Busy(k)' <=> v \in Tagging!Busy(k)
    BY <1>1, RunIs
<1>2. ASSUME NEW k \in Logs, k # log[w]
      PROVE  /\ OnlyAdds(k) => OnlyAdds(k)'
             /\ Covered(k) => Covered(k)'
             /\ OneRemoves(k) => OneRemoves(k)'
    <2>1. tags'[k] = tags[k] /\ perms'[k] = perms[k]
        BY <1>0, <1>2
    <2>2. w \notin Tagging!Busy(k) /\ w \notin Tagging!Busy(k)'
        BY <1>1, <1>2, RunIs
    <2>3. \A v \in Workers : v # w => todo'[v] = todo[v] /\ (v \in Tagging!Busy(k)' <=> v \in Tagging!Busy(k))
        BY <1>0
    <2>4. Tagging!Busy(k) \subseteq Workers /\ Tagging!Busy(k)' \subseteq Workers
        BY DEF Tagging!Busy
    <2>5. Tagging!Busy(k)' = Tagging!Busy(k) /\ \A v \in Tagging!Busy(k) : todo'[v] = todo[v]
        BY <2>2, <2>3, <2>4
    <2> QED BY <2>1, <2>5, LogApart
<1>3. ASSUME NEW k \in Logs, k \notin removed' PROVE OnlyAdds(k)'
    <2>1. OnlyAdds(k)
        BY <1>1, <1>3 DEF TagsInv
    <2>2. CASE k = log[w]
        <3>1. log' = log
            BY DEF Tagging!RunStatement
        <3>2. (log[w])' = log[w]
            BY <3>1
        <3> DEFINE l == log[w]
        <3>3. OnlyAdds(l)'
            BY <1>1, <2>1, <2>2, RunAdds
        <3> QED BY <2>2, <3>2, <3>3 DEF OnlyAdds
    <2>3. CASE k # log[w]
        BY <1>2, <2>1, <2>3
    <2> QED BY <2>2, <2>3
<1>4. ASSUME NEW k \in Logs, k \notin disturbed'
      PROVE  (OnlyAdds(k)' /\ Covered(k)') \/ OneRemoves(k)'
    <2>1. (OnlyAdds(k) /\ Covered(k)) \/ OneRemoves(k)
        BY <1>1, <1>4 DEF TagsInv
    <2>2. CASE k = log[w]
        <3>1. log' = log
            BY DEF Tagging!RunStatement
        <3>2. (log[w])' = log[w]
            BY <3>1
        <3> DEFINE l == log[w]
        <3>3. (OnlyAdds(l)' /\ Covered(l)') \/ OneRemoves(l)'
            BY <1>1, <2>1, <2>2, RunAdds, RunRemoves
        <3> QED BY <2>2, <3>2, <3>3 DEF OnlyAdds, Covered, OneRemoves
    <2>3. CASE k # log[w]
        BY <1>2, <2>1, <2>3
    <2> QED BY <2>2, <2>3
<1> QED BY <1>3, <1>4 DEF TagsInv

-----------------------------------------------------------------------------
(* The invariant holds at first and every step keeps it.                   *)

LEMMA StatementsOfRequests ==
    ASSUME SaneTags
    PROVE  /\ \A t \in Tags : Tagging!AddTag(t) \in Seq(Tagging!Statements) /\ Tagging!RemoveTag(t) \in Seq(Tagging!Statements)
           /\ \A s, l : Tagging!Follow(s, l) \in Seq(Tagging!Statements)
<1>1. \A t \in Tags : Tagging!AddTag(t) \in Seq(Tagging!Statements)
    BY AddTagShape
<1>2. "lvem" \in Tags /\ "public" \in Tags
    BY AccessTagsAre DEF SaneTags
<1>3. ASSUME NEW t \in Tags PROVE Tagging!RemoveTag(t) \in Seq(Tagging!Statements)
    <2> DEFINE a == [do |-> "untag", tag |-> t]
               b == [do |-> "hide", tag |-> t]
               c == [do |-> "followLvem", tag |-> t]
    <2>1. a \in Tagging!Statements /\ (t \in Tagging!AccessTags => b \in Tagging!Statements /\ c \in Tagging!Statements)
        BY DEF Tagging!Statements
    <2>2. /\ t \notin Tagging!AccessTags => Tagging!RemoveTag(t) = <<a>>
          /\ t \in Tagging!AccessTags => Tagging!RemoveTag(t) = <<a, b>> \/ Tagging!RemoveTag(t) = <<a, b, c>>
        <3>1. t \in Tagging!AccessTags => t = "lvem" \/ t = "public"
            BY AccessTagsAre
        <3>2. t = "lvem" => Tagging!RemoveTag(t) = <<a, b, c>>
            BY RemoveTagIs
        <3>3. t = "public" => Tagging!RemoveTag(t) = <<a, b>>
            BY RemoveTagIs
        <3>4. t \notin Tagging!AccessTags => Tagging!RemoveTag(t) = <<a>>
            BY RemoveTagIs
        <3> HIDE DEF a, b, c
        <3> QED BY <3>1, <3>2, <3>3, <3>4
    <2> HIDE DEF a, b, c
    <2>3. CASE t \notin Tagging!AccessTags
        <3>1. Tagging!RemoveTag(t) = <<a>>
            BY <2>2, <2>3
        <3>2. <<a>> \in Seq(Tagging!Statements)
            BY <2>1
        <3> QED BY <3>1, <3>2
    <2>4. CASE Tagging!RemoveTag(t) = <<a, b>> /\ t \in Tagging!AccessTags
        BY <2>1, <2>4
    <2>5. CASE Tagging!RemoveTag(t) = <<a, b, c>> /\ t \in Tagging!AccessTags
        BY <2>1, <2>5
    <2> QED BY <2>2, <2>3, <2>4, <2>5
<1>4. ASSUME NEW s, NEW l PROVE Tagging!Follow(s, l) \in Seq(Tagging!Statements)
    <2>1. Tagging!Follow(s, l) \in {<<>>, Tagging!AddTag("lvem"), Tagging!RemoveTag("public")}
        BY DEF Tagging!Follow
    <2>2. <<>> \in Seq(Tagging!Statements)
        OBVIOUS
    <2>3. Tagging!AddTag("lvem") \in Seq(Tagging!Statements) /\ Tagging!RemoveTag("public") \in Seq(Tagging!Statements)
        BY <1>1, <1>2, <1>3
    <2> HIDE DEF Tagging!Follow
    <2> QED BY <2>1, <2>2, <2>3
<1> QED BY <1>1, <1>3, <1>4

LEMMA RequestType ==
    ASSUME Tagging!TypeOK, NEW w \in Workers, NEW l \in Logs, NEW statements \in Seq(Tagging!Statements),
           Tagging!Request(w, l, statements), created \subseteq created', created' \subseteq Logs,
           l \in created', removed' \subseteq Logs, disturbed' \subseteq Logs
    PROVE  Tagging!TypeOK'
<1>1. /\ tags' \in [Logs -> SUBSET Tags] /\ perms' \in [Logs -> SUBSET Tagging!AccessTags]
      /\ log' \in [Workers -> Logs] /\ todo' \in [Workers -> Seq(Tagging!Statements)]
    BY DEF Tagging!TypeOK, Tagging!Request
<1>2. \A v \in Workers : v # w => todo'[v] = todo[v] /\ log'[v] = log[v]
    BY RequestBusy
<1>3. log'[w] = l
    BY RequestBusy
<1>4. ASSUME NEW v \in Workers, ~ Tagging!Idle(v)' PROVE log'[v] \in created'
    BY <1>2, <1>3, <1>4 DEF Tagging!TypeOK, Tagging!Idle
<1> QED BY <1>1, <1>4 DEF Tagging!TypeOK

LEMMA TagsType ==
    ASSUME SaneTags, Tagging!TypeOK, Tagging!Next
    PROVE  Tagging!TypeOK'
<1>1. ASSUME NEW w \in Workers, Tagging!Create(w) PROVE Tagging!TypeOK'
    <2>1. PICK l \in Logs \ created, given \in Tagging!TagsOfNew, external \in BOOLEAN :
            /\ Tagging!Request(w, l, given \o IF external THEN Tagging!AddTag(Tagging!LvemTag) ELSE <<>>)
            /\ created' = created \cup {l}
            /\ UNCHANGED <<removed, disturbed>>
        BY <1>1 DEF Tagging!Create
    <2>2. given \o (IF external THEN Tagging!AddTag(Tagging!LvemTag) ELSE <<>>) \in Seq(Tagging!Statements)
        BY NewShape
    <2>3. /\ created \subseteq created' /\ created' \subseteq Logs /\ l \in created'
          /\ removed' \subseteq Logs /\ disturbed' \subseteq Logs
        BY <2>1 DEF Tagging!TypeOK
    <2> QED BY <2>1, <2>2, <2>3, RequestType
<1>2. ASSUME NEW w \in Workers, Tagging!PostTag(w) PROVE Tagging!TypeOK'
    <2>1. PICK l \in created : \E t \in Tags \ tags[l] : Tagging!Request(w, l, Tagging!AddTag(t))
        BY <1>2 DEF Tagging!PostTag
    <2>2. PICK t \in Tags : Tagging!Request(w, l, Tagging!AddTag(t))
        BY <2>1
    <2>3. Tagging!AddTag(t) \in Seq(Tagging!Statements) /\ l \in Logs
        BY AddTagShape DEF Tagging!TypeOK
    <2>4. created' = created /\ removed' \subseteq Logs /\ disturbed' \subseteq Logs
        BY <1>2 DEF Tagging!PostTag, Tagging!TypeOK
    <2> QED BY <2>2, <2>3, <2>4, RequestType DEF Tagging!TypeOK
<1>3. ASSUME NEW w \in Workers, Tagging!DeleteTag(w) PROVE Tagging!TypeOK'
    <2>1. PICK l \in created : \E t \in tags[l] : Tagging!Request(w, l, Tagging!RemoveTag(t))
        BY <1>3 DEF Tagging!DeleteTag
    <2>2. PICK t \in tags[l] : Tagging!Request(w, l, Tagging!RemoveTag(t))
        BY <2>1
    <2>3. Tagging!RemoveTag(t) \in Seq(Tagging!Statements) /\ l \in Logs
        BY StatementsOfRequests DEF Tagging!TypeOK
    <2>4. created' = created /\ removed' \subseteq Logs /\ disturbed' \subseteq Logs
        BY <1>3 DEF Tagging!DeleteTag, Tagging!TypeOK
    <2> QED BY <2>2, <2>3, <2>4, RequestType DEF Tagging!TypeOK
<1>4. ASSUME NEW w \in Workers, Tagging!RunStatement(w) PROVE Tagging!TypeOK'
    <2> DEFINE s == Head(todo[w])
               l == log[w]
    <2>1. /\ todo[w] # <<>> /\ todo[w] \in Seq(Tagging!Statements) /\ l \in Logs /\ s \in Tagging!Statements
          /\ l \in created
        <3>1. /\ todo[w] # <<>> /\ todo[w] \in Seq(Tagging!Statements) /\ l \in Logs /\ s \in Tagging!Statements
            BY <1>4, RunIs
        <3> QED BY <3>1 DEF Tagging!TypeOK, Tagging!Idle
    <2>2. Tail(todo[w]) \in Seq(Tagging!Statements) /\ Tagging!Follow(s, l) \in Seq(Tagging!Statements)
        BY <2>1, StatementsOfRequests
    <2>3. todo'[w] \in Seq(Tagging!Statements)
        <3>1. todo'[w] = Tagging!Follow(s, l) \o Tail(todo[w])
            BY <1>4, RunIs
        <3> QED BY <2>2, <3>1, ConcatProperties
    <2>4. \A v \in Workers : v # w => todo'[v] = todo[v]
        BY <1>4, RunIs
    <2>5. todo' \in [Workers -> Seq(Tagging!Statements)]
        <3>1. todo' = [todo EXCEPT ![w] = Tagging!Follow(s, l) \o Tail(todo[w])]
            BY <1>4 DEF Tagging!RunStatement, Tagging!TypeOK
        <3>2. todo' = [v \in Workers |-> todo'[v]]
            BY <3>1 DEF Tagging!TypeOK
        <3> QED BY <2>3, <2>4, <3>2 DEF Tagging!TypeOK
    <2>6. s.tag \in Tags /\ (s.do = "expose" => s.tag \in Tagging!AccessTags)
        BY <2>1 DEF Tagging!Statements, SaneTags
    <2> HIDE DEF s, l
    <2>7. /\ tags' = [tags EXCEPT ![l] = CASE s.do = "tag"   -> @ \cup {s.tag}
                                           [] s.do = "untag" -> @ \ {s.tag}
                                           [] OTHER          -> @]
          /\ perms' = [perms EXCEPT ![l] = CASE s.do = "expose" -> @ \cup {s.tag}
                                             [] s.do = "hide"   -> @ \ {s.tag}
                                             [] OTHER           -> @]
        BY <1>4 DEF Tagging!RunStatement, s, l
    <2>8. l \in Logs
        BY <2>1
    <2>9. tags' \in [Logs -> SUBSET Tags]
        BY <2>6, <2>7, <2>8 DEF Tagging!TypeOK
    <2>10. perms' \in [Logs -> SUBSET Tagging!AccessTags]
        BY <2>6, <2>7, <2>8 DEF Tagging!TypeOK
    <2>11. /\ log' = log /\ created' = created /\ removed' = removed /\ disturbed' = disturbed
        BY <1>4 DEF Tagging!RunStatement
    <2>12. \A v \in Workers : ~ Tagging!Idle(v)' => log'[v] \in created'
        <3>1. ASSUME NEW v \in Workers, v # w, ~ Tagging!Idle(v)' PROVE log'[v] \in created'
            BY <2>4, <2>11, <3>1 DEF Tagging!TypeOK, Tagging!Idle
        <3>2. log'[w] \in created'
            BY <2>1, <2>11 DEF l
        <3> QED BY <3>1, <3>2
    <2> QED BY <2>5, <2>9, <2>10, <2>11, <2>12 DEF Tagging!TypeOK
<1>5. ASSUME NEW w \in Workers, Tagging!Crash(w) PROVE Tagging!TypeOK'
    <2>1. /\ todo' = [todo EXCEPT ![w] = <<>>] /\ disturbed' = disturbed \cup {log[w]}
          /\ UNCHANGED <<tags, perms, created, log, removed>>
        BY <1>5 DEF Tagging!Crash
    <2>2. todo' \in [Workers -> Seq(Tagging!Statements)] /\ disturbed' \subseteq Logs
        BY <2>1 DEF Tagging!TypeOK
    <2>3. \A v \in Workers : ~ Tagging!Idle(v)' => ~ Tagging!Idle(v)
        BY <2>1 DEF Tagging!TypeOK, Tagging!Idle
    <2> QED BY <2>1, <2>2, <2>3 DEF Tagging!TypeOK
<1> QED BY <1>1, <1>2, <1>3, <1>4, <1>5 DEF Tagging!Next

LEMMA TagsInit == Tagging!Init => TagsInv
<1> SUFFICES ASSUME Tagging!Init PROVE TagsInv
    OBVIOUS
<1>1. Tagging!TypeOK
    BY DEF Tagging!Init, Tagging!TypeOK, Tagging!Idle
<1>2. ASSUME NEW l \in Logs PROVE OnlyAdds(l) /\ Covered(l)
    <2>1. Tagging!Busy(l) = {} /\ tags[l] = {} /\ perms[l] = {}
        BY DEF Tagging!Init, Tagging!Busy, Tagging!Idle
    <2> QED BY <2>1 DEF OnlyAdds, Covered
<1> QED BY <1>1, <1>2 DEF TagsInv

LEMMA TagsStep == ASSUME SaneTags, TagsInv, [Tagging!Next]_Tagging!vars PROVE TagsInv'
<1>1. CASE Tagging!Next
    <2>1. Tagging!TypeOK'
        BY <1>1, TagsType DEF TagsInv
    <2> QED BY <1>1, <2>1, CreateTags, PostTagTags, DeleteTagTags, RunTags, CrashTags
            DEF Tagging!Next
<1>2. CASE UNCHANGED Tagging!vars
    <2>1. Tagging!TypeOK'
        BY <1>2 DEF Tagging!vars, TagsInv, Tagging!TypeOK, Tagging!Idle
    <2>2. removed' = removed /\ disturbed' = disturbed /\ tags' = tags /\ perms' = perms
          /\ todo' = todo /\ log' = log
        BY <1>2 DEF Tagging!vars
    <2>3. ASSUME NEW l \in Logs PROVE Tagging!Busy(l)' = Tagging!Busy(l)
        BY <2>2 DEF Tagging!Busy, Tagging!Idle
    <2>4. ASSUME NEW l \in Logs, l \notin removed' PROVE OnlyAdds(l)'
        <3>1. OnlyAdds(l)
            BY <2>2, <2>4 DEF TagsInv
        <3> QED BY <2>2, <2>3, <3>1, LogApart
    <2>5. ASSUME NEW l \in Logs, l \notin disturbed'
          PROVE  (OnlyAdds(l)' /\ Covered(l)') \/ OneRemoves(l)'
        <3>1. (OnlyAdds(l) /\ Covered(l)) \/ OneRemoves(l)
            BY <2>2, <2>5 DEF TagsInv
        <3> QED BY <2>2, <2>3, <3>1, LogApart
    <2> QED BY <2>1, <2>4, <2>5 DEF TagsInv
<1> QED BY <1>1, <1>2

LEMMA InvKeepsTags ==
    ASSUME TagsInv
    PROVE  Tagging!TypeOK /\ Tagging!TagsTrackPermissions /\ Tagging!ShownLogsAreTagged
<1>1. Tagging!TypeOK
    BY DEF TagsInv
<1>2. ASSUME NEW l \in Logs, l \notin disturbed, Tagging!Busy(l) = {}
      PROVE  perms[l] = tags[l] \cap Tagging!AccessTags
    <2>1. OnlyAdds(l) /\ Covered(l)
        BY <1>2 DEF TagsInv, OneRemoves
    <2> QED BY <1>1, <1>2, <2>1 DEF OnlyAdds, Covered, Tagging!TypeOK
<1>3. ASSUME NEW l \in Logs, l \notin removed PROVE perms[l] \subseteq tags[l]
    BY <1>3 DEF TagsInv, OnlyAdds
<1> QED BY <1>1, <1>2, <1>3 DEF Tagging!TagsTrackPermissions, Tagging!ShownLogsAreTagged

-----------------------------------------------------------------------------
(* The inductive invariant: that of the component the behaviour is of.     *)

ExposureHolds == part = "exposure" => ExposureInv
TaggingHolds == part = "tagging" => TagsInv
SigningHolds == part = "signing" => SignInv

LEMMA ExposureAlways == ASSUME SaneExposure PROVE Spec => []ExposureHolds
<1>1. Init => ExposureHolds
    BY ExposureInit DEF Init, ExposureHolds
<1>2. (ExposureHolds /\ [Next]_vars) => ExposureHolds'
    <2> SUFFICES ASSUME ExposureHolds, [Next]_vars, part' = "exposure"
                 PROVE  ExposureInv'
        BY DEF ExposureHolds
    <2>1. CASE part = "exposure" /\ Exposure!Next
        BY <2>1, ExposureStep DEF ExposureHolds
    <2>2. CASE part = "exposure" /\ UNCHANGED vars
        <3>1. UNCHANGED Exposure!vars
            BY <2>2 DEF vars, ofBoth, ofExposure, Exposure!vars
        <3> QED BY <2>2, <3>1, ExposureStep DEF ExposureHolds
    <2> QED BY <2>1, <2>2 DEF Next, vars
<1> QED BY <1>1, <1>2, PTL DEF Spec

LEMMA TaggingAlways == ASSUME SaneTags PROVE Spec => []TaggingHolds
<1>1. Init => TaggingHolds
    BY TagsInit DEF Init, TaggingHolds
<1>2. (TaggingHolds /\ [Next]_vars) => TaggingHolds'
    <2> SUFFICES ASSUME TaggingHolds, [Next]_vars, part' = "tagging"
                 PROVE  TagsInv'
        BY DEF TaggingHolds
    <2>1. CASE part = "tagging" /\ Tagging!Next
        BY <2>1, TagsStep DEF TaggingHolds
    <2>2. CASE part = "tagging" /\ UNCHANGED vars
        <3>1. UNCHANGED Tagging!vars
            BY <2>2 DEF vars, ofTagging, Tagging!vars
        <3> QED BY <2>2, <3>1, TagsStep DEF TaggingHolds
    <2> QED BY <2>1, <2>2 DEF Next, vars
<1> QED BY <1>1, <1>2, PTL DEF Spec

LEMMA SigningAlways == ASSUME SaneSigning PROVE Spec => []SigningHolds
<1>1. Init => SigningHolds
    BY SignInit DEF Init, SigningHolds
<1>2. (SigningHolds /\ [Next]_vars) => SigningHolds'
    <2> SUFFICES ASSUME SigningHolds, [Next]_vars, part' = "signing"
                 PROVE  SignInv'
        BY DEF SigningHolds
    <2>1. CASE part = "signing" /\ Signing!Next
        BY <2>1, SignStep DEF SigningHolds
    <2>2. CASE part = "signing" /\ UNCHANGED vars
        <3>1. UNCHANGED Signing!vars
            BY <2>2 DEF vars, ofBoth, ofSigning, Signing!vars
        <3> QED BY <2>2, <3>1, SignStep DEF SigningHolds
    <2> QED BY <2>1, <2>2 DEF Next, vars
<1> QED BY <1>1, <1>2, PTL DEF Spec

-----------------------------------------------------------------------------
\* Between requests the flag says who may see the superevent, unless a save was refused or
\* requests that get in each other's way overlapped; and a modify request that runs alone
\* after that, and acts, makes the two agree again.
THEOREM FlagAgrees == ASSUME SaneExposure PROVE Spec => []FlagIsTrue
<1>1. ExposureHolds => FlagIsTrue
    BY InvKeepsFlag DEF ExposureHolds, FlagIsTrue
<1> QED BY <1>1, ExposureAlways, PTL

\* Where all modify requests ask for the same, the flag never says so before the permissions
\* do, whatever overlaps, and a PATCH that saves an old flag does not change that.
THEOREM FlagIsLast == ASSUME SaneExposure PROVE Spec => []FlagComesLast
<1>1. ExposureHolds => FlagComesLast
    BY InvKeepsOrder DEF ExposureHolds, FlagComesLast
<1> QED BY <1>1, ExposureAlways, PTL

\* When no request is at work on a log message it is shown to exactly the groups its access
\* tags name, and as long as no tag is taken off it, to no other group at any time, however
\* requests that add tags overlap; one that takes a tag off must not overlap with others.
THEOREM LogsAreShownAsTagged == ASSUME SaneTags PROVE Spec => []TagsTellWhoSees
<1>1. TaggingHolds => TagsTellWhoSees
    BY InvKeepsTags DEF TaggingHolds, TagsTellWhoSees
<1> QED BY <1>1, TaggingAlways, PTL

\* As long as only requests of one kind overlap and no process dies, a superevent has, between
\* requests, the label of the status of its signoff and no other, and without a signoff at most
\* the label that requests one.
THEOREM LabelsAgree == ASSUME SaneSigning PROVE Spec => []LabelsMatchSignoff
<1>1. SigningHolds => LabelsMatchSignoff
    BY InvKeepsLabels DEF SigningHolds, LabelsMatchSignoff
<1> QED BY <1>1, SigningAlways, PTL

\* Whatever overlaps and crashes have made of the labels before, a change of the status that
\* no other request overlaps leaves the label of the new status, and not that of the other.
THEOREM PutPutsLabelsRight == ASSUME SaneSigning PROVE Spec => PutRepairs
<1>1. (SigningHolds /\ [Next]_vars) =>
        [part = "signing" => \A w \in Workers, s \in Signing!Statuses :
          alone = {w} /\ op[w].kind = "put" /\ op[w].status = s
                      /\ (Signing!Add(w) \/ (Signing!Look(w) /\ pc'[w] = "idle")) =>
              signoff' = s /\ Signing!Applied' \cap Signing!Statuses = {s}]_vars
    <2> SUFFICES ASSUME SigningHolds, part = "signing", NEW w \in Workers,
                        NEW s \in Signing!Statuses,
                        alone = {w}, op[w].kind = "put", op[w].status = s,
                        Signing!Add(w) \/ (Signing!Look(w) /\ pc'[w] = "idle")
                 PROVE  signoff' = s /\ Signing!Applied' \cap Signing!Statuses = {s}
        OBVIOUS
    <2> QED BY PutPutsRight DEF SigningHolds
<1> QED BY <1>1, SigningAlways, PTL DEF Spec, PutRepairs
=============================================================================

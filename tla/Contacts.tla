------------------------------ MODULE Contacts ------------------------------
(***************************************************************************)
(* One contact of a user for notifications: it is created, a verification  *)
(* code is made and sent, the code is entered, the contact is edited and   *)
(* deleted, and notifications name it.  The user has several pages open,   *)
(* so that requests overlap.                                               *)
(*                                                                         *)
(* Each request loads the contact first and works with that instance.      *)
(* Some saves write a few columns (update_fields); the save of a form      *)
(* writes them all, and makes the row anew if it is gone.                  *)
(***************************************************************************)
EXTENDS Naturals

CONSTANTS
    Pages,           \* the pages that are open
    Notifications,
    MaxCodes,        \* bound on the codes that are made
    MaxRequests,     \* bound on the requests
    NoCode,          \* no code has been made
    Gone             \* there is no such row

Codes == 1 .. MaxCodes
Row == [verified : BOOLEAN, code : Codes \cup {NoCode}]

VARIABLES
    row,        \* the contact, or Gone
    valid,      \* the codes that have been made and have not expired
    made,       \* the number of codes that have been made
    inbox,      \* the codes the user has got
    names,      \* the notifications that name the contact
    step,       \* what each page's request does next
    inst,       \* the contact as its request loaded it, or Gone
    notif,      \* the notification the request of a page makes
    requests,   \* the number of requests so far
    earned,     \* history: a valid code has been entered
    calm        \* history: no two requests have overlapped

vars == <<row, valid, made, inbox, names, step, inst, notif, requests, earned, calm>>

\* Only codes that were made are on the row, valid or in the inbox.
TypeOK ==
    /\ row \in Row \cup {Gone}
    /\ made \in 0 .. MaxCodes
    /\ valid \subseteq 1 .. made
    /\ inbox \subseteq 1 .. made
    /\ row # Gone => row.code \in (1 .. made) \cup {NoCode}
    /\ names \subseteq Notifications
    /\ step \in [Pages -> {"idle", "generate", "send", "verify", "save", "delete", "m2m"}]
    /\ inst \in [Pages -> Row \cup {Gone}]
    /\ notif \in [Pages -> Notifications]
    /\ requests \in 0 .. MaxRequests
    /\ earned \in BOOLEAN /\ calm \in BOOLEAN
    /\ \A p \in Pages : step[p] \in {"verify", "save"} => inst[p] # Gone

-----------------------------------------------------------------------------
\* A request begins and loads the contact; without one it is not found.
Load(p, next) ==
    /\ step[p] = "idle"
    /\ requests < MaxRequests
    /\ row # Gone
    /\ requests' = requests + 1
    /\ step' = [step EXCEPT ![p] = next]
    /\ inst' = [inst EXCEPT ![p] = row]
    /\ calm' = (calm /\ \A q \in Pages : step[q] = "idle")
    /\ UNCHANGED <<row, valid, made, inbox, names>>

Goto(p, next) == step' = [step EXCEPT ![p] = next]

\* CreateContactView.
Create ==
    /\ row = Gone /\ requests < MaxRequests
    /\ \A p \in Pages : step[p] = "idle"
    /\ requests' = requests + 1
    /\ row' = [verified |-> FALSE, code |-> NoCode]
    /\ earned' = FALSE
    /\ UNCHANGED <<valid, made, inbox, names, step, inst, notif, calm>>

\* RequestVerificationCodeView: a verified contact gets no code.
RequestCode(p) == /\ Load(p, "generate")
                  /\ ~ row.verified
                  /\ UNCHANGED <<notif, earned>>

\* generate_verification_code: update_fields, an error if the row is gone.
Generate(p) ==
    /\ step[p] = "generate" /\ made < MaxCodes
    /\ IF row = Gone THEN UNCHANGED <<row, made, valid>> /\ Goto(p, "idle")
       ELSE /\ made' = made + 1
            /\ row' = [row EXCEPT !.code = made']
            /\ valid' = valid \cup {made'}
            /\ Goto(p, "send")
    /\ inst' = [inst EXCEPT ![p] = IF row = Gone THEN @ ELSE [@ EXCEPT !.code = made']]
    /\ UNCHANGED <<inbox, names, notif, requests, earned, calm>>

\* send_verification_code, which may fail.
Send(p) ==
    /\ step[p] = "send"
    /\ inbox' \in {inbox, inbox \cup {inst[p].code}}
    /\ Goto(p, "idle")
    /\ UNCHANGED <<row, valid, made, names, inst, notif, requests, earned, calm>>

\* VERIFICATION_CODE_LIFETIME is over.
Expire == /\ \E c \in valid : valid' = valid \ {c}
          /\ UNCHANGED <<row, made, inbox, names, step, inst, notif, requests, earned, calm>>

\* A bug: the code is not compared.
AnyCode(c, code) == c.code # NoCode /\ code \in Codes

\* clean_code.
RightCode(c, code) == c.code = code

\* VerifyContactForm: it looks at the instance.
Accepts(c, code) == ~ c.verified /\ c.code # NoCode /\ c.code \in valid /\ RightCode(c, code)

\* VerifyContactView, with a code the user has got.
EnterCode(p) ==
    /\ Load(p, "verify")
    /\ \E code \in inbox : Accepts(row, code) /\ earned' = (earned \/ code = row.code)
    /\ UNCHANGED notif

\* Contact.verify: update_fields, an error if the row is gone.
Verify(p) ==
    /\ step[p] = "verify"
    /\ IF row = Gone THEN UNCHANGED row /\ Goto(p, "idle")
       ELSE row' = [row EXCEPT !.verified = TRUE] /\ Goto(p, "save")
    /\ inst' = [inst EXCEPT ![p].verified = TRUE]
    /\ UNCHANGED <<valid, made, inbox, names, notif, requests, earned, calm>>

\* EditContactView.
Edit(p) == Load(p, "save") /\ UNCHANGED <<notif, earned>>

\* form.save() of the form that verifies and of the one that edits: every column.
Save(p) ==
    /\ step[p] = "save"
    /\ row' = inst[p]
    /\ Goto(p, "idle")
    /\ UNCHANGED <<valid, made, inbox, names, inst, notif, requests, earned, calm>>

\* DeleteContactView: the page is got, not posted, so the test of form_valid is not run.
StartDelete(p) == Load(p, "delete") /\ UNCHANGED <<notif, earned>>

\* The row goes, and what names it in a notification.
Delete(p) ==
    /\ step[p] = "delete"
    /\ row' = Gone
    /\ names' = {}
    /\ Goto(p, "idle")
    /\ UNCHANGED <<valid, made, inbox, inst, notif, requests, earned, calm>>

\* A bug: the form offers every contact of the user.
Owned(c) == c # Gone

\* The contacts a notification form accepts.
Offered(c) == c # Gone /\ c.verified

\* CreateNotificationView and EditNotificationView: the form is cleaned ...
Name(p) == /\ Load(p, "m2m")
           /\ Offered(row)
           /\ \E n \in Notifications \ names : notif' = [notif EXCEPT ![p] = n]
           /\ UNCHANGED earned

\* ... and the contacts of the notification are written, an error if the row is gone.
WriteContacts(p) ==
    /\ step[p] = "m2m"
    /\ names' = IF row = Gone THEN names ELSE names \cup {notif[p]}
    /\ Goto(p, "idle")
    /\ UNCHANGED <<row, valid, made, inbox, inst, notif, requests, earned, calm>>

\* DeleteNotificationView, or an edit that names another contact.
Unname == /\ \E n \in names : names' = names \ {n}
          /\ UNCHANGED <<row, valid, made, inbox, step, inst, notif, requests, earned, calm>>

Init ==
    /\ row = Gone
    /\ valid = {} /\ inbox = {} /\ names = {}
    /\ made = 0 /\ requests = 0
    /\ step = [p \in Pages |-> "idle"]
    /\ inst = [p \in Pages |-> Gone]
    /\ notif \in [Pages -> Notifications]
    /\ \A p, q \in Pages : notif[p] = notif[q]
    /\ earned = FALSE
    /\ calm = TRUE

Next == \/ Create \/ Expire \/ Unname
        \/ \E p \in Pages :
             \/ RequestCode(p) \/ Generate(p) \/ Send(p) \/ EnterCode(p) \/ Verify(p)
             \/ Edit(p) \/ Save(p) \/ StartDelete(p) \/ Delete(p) \/ Name(p) \/ WriteContacts(p)

Spec == Init /\ [][Next]_vars

-----------------------------------------------------------------------------
(* Properties.                                                             *)

\* However requests overlap, a contact that is verified is one whose owner has entered
\* the code that was sent to it, and so is one that a notification names.  One that a
\* notification names stays verified, so that alerts reach it; only an edit that overlaps
\* with the verification takes it back.
VerifiedIsEarned ==
    /\ row # Gone /\ row.verified => earned
    /\ names # {} => earned
    /\ calm /\ names # {} => row # Gone /\ row.verified


\* "Contacts can only be deleted if they aren't part of a notification."
NotificationsKeepContacts == [][names # {} => row' # Gone]_vars
=============================================================================

------------------------------- MODULE AuthFlow -------------------------------
(***************************************************************************)
(* Signing in, signing up and signing out: LoginController,                *)
(* RegistrationController, ResetPasswordController and their view models,  *)
(* the part of HomeViewController that shows and leaves the login screen,  *)
(* the launch of the app, and the Firebase Auth and Database clients as    *)
(* far as these screens use them.                                          *)
(*                                                                         *)
(* A request to Firebase runs through three threads: a handler on the main *)
(* queue sends it, the backend answers and the Auth client records the     *)
(* signed-in user (in the keychain) on its own work queue, and only then   *)
(* the completion is queued on the main queue.  The user goes on using the *)
(* screens meanwhile: buttons stay enabled while a request is out.         *)
(*                                                                         *)
(* An account's uid stands for its email: Firebase keeps one account per   *)
(* email, and the app never deletes one.                                   *)
(***************************************************************************)
EXTENDS Naturals

CONSTANTS
  Emails, Passwords, Fullnames,  \* what a user may type
  Empty,                         \* a text field (or a view model field) with nothing in it
  None,                          \* no user, no account, no profile, no request
  Slots                          \* bound: one per request that may be outstanding

\* None is no user and no password, and an empty field is none of the texts.
ASSUME AuthAssumption ==
  /\ None \notin Emails \cup Passwords
  /\ Empty \notin Emails \cup Passwords \cup Fullnames

VARIABLES
  screen,       \* what the user sees
  forms,        \* the text fields, view model and button of each form
  requests,     \* slot -> outstanding request
  currentUser,  \* Auth.auth().currentUser, kept in the keychain
  revoked,      \* was the user signed out by force since the last sign-in or launch?
  accounts,     \* backend: email -> password
  profiles,     \* database: "user"/uid -> email and fullname
  reported      \* uids whose sign-up was reported as created and uploaded

client == <<screen, forms>>
backend == <<accounts, profiles>>
vars == <<screen, forms, requests, currentUser, revoked, accounts, profiles, reported>>

FormScreens == {"login", "registration", "resetPassword"}
Screens == FormScreens \cup {"home", "launching"}

\* The fields whose edits reach the view model of each controller.
LoginFields == {"email", "password"}
RegistrationFields == {"email", "password", "fullname"}
ResetPasswordFields == {"email"}

FieldsOf(s) ==
  CASE s = "login" -> LoginFields
    [] s = "registration" -> RegistrationFields
    [] s = "resetPassword" -> ResetPasswordFields

\* What can be in a field.
Texts(field) ==
  CASE field = "email" -> Emails \cup {Empty}
    [] field = "password" -> Passwords \cup {Empty}
    [] field = "fullname" -> Fullnames \cup {Empty}

blank(s) == [field \in FieldsOf(s) |-> Empty]

\* A form whose controller was just created; AuthButton starts disabled.
newForm(s) == [text |-> blank(s), viewModel |-> blank(s), isEnabled |-> FALSE]

LoginRequest ==
  [kind : {"signIn"}, email : Emails \cup {Empty}, password : Passwords \cup {Empty},
   onScreen : BOOLEAN, stage : {"sent", "accepted", "rejected"}]

\* The fields of a sign-up, which its completion goes on to use for the upload.
SignUpRequest ==
  [kind : {"createUser", "upload"}, email : Emails \cup {Empty},
   password : Passwords \cup {Empty}, fullname : Fullnames \cup {Empty},
   uid : Emails \cup {None}, stage : {"sent", "created", "accepted", "rejected"}]

Profile == [email : Emails \cup {Empty}, fullname : Fullnames \cup {Empty}]
----------------------------------------------------------------------------
(***************************************************************************)
(* Launching.  authenticateUser queues the login screen if there is no     *)
(* user; every form belongs to a controller that does not exist yet.       *)
(***************************************************************************)
authenticateUser(user) == IF user = None THEN "launching" ELSE "home"

noForms == [s \in FormScreens |-> newForm(s)]

\* The first launch, on a backend with some accounts.
Init ==
  /\ currentUser = None
  /\ screen = authenticateUser(None)
  /\ forms = noForms
  /\ requests = [s \in Slots |-> None]
  /\ revoked = FALSE
  /\ accounts \in [Emails -> Passwords \cup {None}]
  /\ profiles = [e \in Emails |-> None]
  /\ reported = {}

\* The app is killed and started again: the keychain keeps the user, and the
\* requests that were out have no one to report to.
relaunch ==
  /\ screen' = authenticateUser(currentUser)
  /\ forms' = noForms
  /\ requests' = [s \in Slots |-> None]
  /\ revoked' = FALSE
  /\ UNCHANGED <<currentUser, backend, reported>>

\* The login screen is a new controller each time.
presentLoginController ==
  /\ screen' = "login"
  /\ forms' = noForms

\* The block that authenticateUser queued.
loginQueued ==
  /\ screen = "launching"
  /\ presentLoginController
  /\ UNCHANGED <<requests, currentUser, revoked, backend, reported>>

\* The user confirms the sheet of handleLogout.  (If the keychain fails signOut
\* throws, and nothing changes.)
logout ==
  /\ screen = "home"
  /\ currentUser' = None
  /\ revoked' = FALSE
  /\ presentLoginController
  /\ UNCHANGED <<requests, backend, reported>>

----------------------------------------------------------------------------
(***************************************************************************)
(* The forms.                                                              *)
(***************************************************************************)
\* Fault: only the first field is looked at.
emailIsEnough(s, viewModel) == viewModel["email"] # Empty

formIsValid(s, viewModel) == \A field \in FieldsOf(s) : viewModel[field] # Empty

\* The button follows the view model.
updateForm(s, form) == [form EXCEPT !.isEnabled = formIsValid(s, form.viewModel)]

\* The user edits a field of the form on display.
textDidChange(field, text) ==
  /\ screen \in FormScreens
  /\ field \in FieldsOf(screen)
  /\ forms' = [forms EXCEPT ![screen] =
       updateForm(screen, [@ EXCEPT !.text[field] = text, !.viewModel[field] = text])]
  /\ UNCHANGED <<screen, requests, currentUser, revoked, backend, reported>>

\* showRegistrationController and showForgotPassword push a new controller.
push(s) ==
  /\ screen = "login"
  /\ screen' = s
  /\ forms' = [forms EXCEPT ![s] = newForm(s)]
  /\ UNCHANGED <<requests, currentUser, revoked, backend, reported>>

showRegistrationController == push("registration")

showForgotPassword == push("resetPassword")

\* showLoginController and handleDismissal pop back to the login form.
popFrom(s) ==
  /\ screen = s
  /\ screen' = "login"
  /\ forms' = [forms EXCEPT ![s] = newForm(s)]
  /\ UNCHANGED <<requests, currentUser, revoked, backend, reported>>

showLoginController == popFrom("registration")

handleDismissal == popFrom("resetPassword")

----------------------------------------------------------------------------
(***************************************************************************)
(* Sending requests.  The buttons that send them are touched while enabled *)
(* and read the text fields, not the view model.                           *)
(***************************************************************************)
send(slot, request) ==
  /\ requests[slot] = None
  /\ requests' = [requests EXCEPT ![slot] = request]
  /\ UNCHANGED <<client, currentUser, revoked, backend, reported>>

handleLogin(slot) ==
  /\ screen = "login"
  /\ forms["login"].isEnabled
  /\ LET text == forms["login"].text IN
       send(slot, [kind |-> "signIn", email |-> text["email"],
                   password |-> text["password"], onScreen |-> TRUE, stage |-> "sent"])

handleSignUp(slot) ==
  /\ screen = "registration"
  /\ forms["registration"].isEnabled
  /\ LET text == forms["registration"].text IN
       send(slot, [kind |-> "createUser", email |-> text["email"],
                   password |-> text["password"], fullname |-> text["fullname"],
                   uid |-> None, stage |-> "sent"])

----------------------------------------------------------------------------
(***************************************************************************)
(* The backend and the work queue of the Auth client.                      *)
(***************************************************************************)
IsOut(slot, kind) == requests[slot] # None /\ requests[slot].kind = kind

InStage(slot, kind, stage) == IsOut(slot, kind) /\ requests[slot].stage = stage

Answered(slot, kind) == InStage(slot, kind, "accepted") \/ InStage(slot, kind, "rejected")

\* The request in a slot moves on.
answer(slot, stage) == requests' = [requests EXCEPT ![slot].stage = stage]

\* A completed sign-in becomes the current user before its completion is queued.
signInAccepted(slot) ==
  /\ InStage(slot, "signIn", "sent")
  /\ accounts[requests[slot].email] = requests[slot].password
  /\ currentUser' = requests[slot].email
  /\ revoked' = FALSE
  /\ answer(slot, "accepted")
  /\ UNCHANGED <<client, backend, reported>>

\* The backend makes the account ...
createUserOnBackend(slot) ==
  /\ InStage(slot, "createUser", "sent")
  /\ accounts[requests[slot].email] = None
  /\ accounts' = [accounts EXCEPT ![requests[slot].email] = requests[slot].password]
  /\ answer(slot, "created")
  /\ UNCHANGED <<client, currentUser, revoked, profiles, reported>>

\* ... and the client signs the new user in.
createUserAccepted(slot) ==
  /\ InStage(slot, "createUser", "created")
  /\ currentUser' = requests[slot].email
  /\ revoked' = FALSE
  /\ answer(slot, "accepted")
  /\ UNCHANGED <<client, backend, reported>>

\* updateChildValues is stored under the uid.
uploadAccepted(slot) ==
  /\ InStage(slot, "upload", "sent")
  /\ profiles' = [profiles EXCEPT ![requests[slot].uid] =
                    [email |-> requests[slot].email, fullname |-> requests[slot].fullname]]
  /\ answer(slot, "accepted")
  /\ UNCHANGED <<client, currentUser, revoked, accounts, reported>>

\* Refused by the backend, lost on the network, or not saved by the keychain.
requestRejected(slot) ==
  /\ \/ \E kind \in {"signIn", "createUser", "upload"} : InStage(slot, kind, "sent")
     \/ InStage(slot, "createUser", "created")
  /\ answer(slot, "rejected")
  /\ UNCHANGED <<client, currentUser, revoked, backend, reported>>

\* The client learns that the user's token is no longer valid.
signOutByForce ==
  /\ currentUser # None
  /\ currentUser' = None
  /\ revoked' = TRUE
  /\ UNCHANGED <<client, requests, backend, reported>>

----------------------------------------------------------------------------
(***************************************************************************)
(* The completions, on the main queue.                                     *)
(***************************************************************************)
\* The login screen goes away; the sign-ins it sent are no longer on screen.
dismissLogin(slot) ==
  /\ screen' = "home"
  /\ forms' = noForms
  /\ requests' = [s \in Slots |->
       IF s = slot THEN None
       ELSE IF IsOut(s, "signIn") THEN [requests[s] EXCEPT !.onScreen = FALSE]
       ELSE requests[s]]

\* Faults: the completion dismisses whatever login screen is presented; it
\* dismisses none.
dismissesOtherLogin(slot) ==
  /\ \/ InStage(slot, "signIn", "accepted") /\ dismissLogin(slot)
     \/ /\ InStage(slot, "signIn", "rejected")
        /\ requests' = [requests EXCEPT ![slot] = None]
        /\ UNCHANGED client
  /\ UNCHANGED <<currentUser, revoked, backend, reported>>

neverDismisses(slot) ==
  /\ Answered(slot, "signIn")
  /\ requests' = [requests EXCEPT ![slot] = None]
  /\ UNCHANGED <<client, currentUser, revoked, backend, reported>>

\* The completion of handleLogin.  dismiss does nothing in a controller that is
\* no longer presented.
signInCompletion(slot) ==
  /\ \/ /\ InStage(slot, "signIn", "rejected")
        /\ requests' = [requests EXCEPT ![slot] = None]
        /\ UNCHANGED client
     \/ /\ InStage(slot, "signIn", "accepted")
        /\ \/ requests[slot].onScreen /\ dismissLogin(slot)
           \/ /\ ~requests[slot].onScreen
              /\ requests' = [requests EXCEPT ![slot] = None]
              /\ UNCHANGED client
  /\ UNCHANGED <<currentUser, revoked, backend, reported>>

\* Faults: the completion does not take the uid from the result; it reads the
\* text fields instead of what was sent.
uploadsWithoutUid(slot) ==
  /\ InStage(slot, "createUser", "accepted")
  /\ requests' = [requests EXCEPT ![slot] = [@ EXCEPT !.kind = "upload", !.stage = "sent"]]
  /\ UNCHANGED <<client, currentUser, revoked, backend, reported>>

uploadsWhatIsOnScreen(slot) ==
  /\ InStage(slot, "createUser", "accepted")
  /\ LET text == forms["registration"].text IN
       requests' = [requests EXCEPT ![slot] =
         [@ EXCEPT !.kind = "upload", !.stage = "sent", !.uid = requests[slot].email,
                   !.email = text["email"], !.fullname = text["fullname"]]]
  /\ UNCHANGED <<client, currentUser, revoked, backend, reported>>

\* The completion of handleSignUp: upload the profile under the new uid.  No
\* screen is left.
createUserCompletion(slot) ==
  /\ \/ /\ InStage(slot, "createUser", "rejected")
        /\ requests' = [requests EXCEPT ![slot] = None]
     \/ /\ InStage(slot, "createUser", "accepted")
        /\ requests' = [requests EXCEPT ![slot] =
             [@ EXCEPT !.kind = "upload", !.stage = "sent", !.uid = requests[slot].email]]
  /\ UNCHANGED <<client, currentUser, revoked, backend, reported>>

\* The completion of the upload looks at the error of createUser, which is nil,
\* and not at its own: it reports success whatever the answer was.
uploadCompletion(slot) ==
  /\ Answered(slot, "upload")
  /\ reported' = reported \cup {requests[slot].uid}
  /\ requests' = [requests EXCEPT ![slot] = None]
  /\ UNCHANGED <<client, currentUser, revoked, backend>>

----------------------------------------------------------------------------
Next ==
  \/ relaunch
  \/ loginQueued
  \/ logout
  \/ \E field \in {"email", "password", "fullname"} :
       \E text \in Texts(field) : textDidChange(field, text)
  \/ showRegistrationController
  \/ showForgotPassword
  \/ showLoginController
  \/ handleDismissal
  \/ signOutByForce
  \/ \E slot \in Slots :
       \/ handleLogin(slot)
       \/ handleSignUp(slot)
       \/ signInAccepted(slot)
       \/ createUserOnBackend(slot)
       \/ createUserAccepted(slot)
       \/ uploadAccepted(slot)
       \/ requestRejected(slot)
       \/ signInCompletion(slot)
       \/ createUserCompletion(slot)
       \/ uploadCompletion(slot)

Spec == Init /\ [][Next]_vars
----------------------------------------------------------------------------
\* The types of the variables.
TypeOK ==
  /\ screen \in Screens
  /\ \A s \in FormScreens :
       /\ forms[s].isEnabled \in BOOLEAN
       /\ \A field \in FieldsOf(s) : /\ forms[s].text[field] \in Texts(field)
                                     /\ forms[s].viewModel[field] \in Texts(field)
  /\ requests \in [Slots -> LoginRequest \cup SignUpRequest \cup {None}]
  /\ currentUser \in Emails \cup {None}
  /\ revoked \in BOOLEAN
  /\ accounts \in [Emails -> Passwords \cup {None}]
  /\ profiles \in [Emails -> Profile \cup {None}]
  /\ reported \subseteq Emails

\* The home screen is on display only for a signed-in user, unless the token was
\* revoked under it: neither a late completion of an older login screen, nor a
\* failed sign-in, nor a relaunch uncovers it.
HomeNeedsUser == screen = "home" => currentUser # None \/ revoked

\* No request is sent with an empty field: a button is enabled only while every
\* field of its form is filled in.
NoEmptyCredentials ==
  \A slot \in Slots :
    requests[slot] # None =>
      /\ requests[slot].email # Empty
      /\ requests[slot].password # Empty
      /\ requests[slot].kind # "signIn" => requests[slot].fullname # Empty

\* A profile in the database belongs to an account and says its email, whatever
\* the user typed or wherever they went while the account was being made.
ProfileBelongsToAccount ==
  \A uid \in Emails :
    profiles[uid] # None => accounts[uid] # None /\ profiles[uid].email = uid

----------------------------------------------------------------------------
\* "Successfully created user and uploaded user info": the profile is there.
UploadMessageIsTrue == \A uid \in reported : profiles[uid] # None
=============================================================================

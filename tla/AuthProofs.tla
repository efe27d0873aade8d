------------------------------ MODULE AuthProofs ------------------------------
(***************************************************************************)
(* Proofs about AuthFlow, for every set of users and any number of         *)
(* requests that are out at the same time.                                 *)
(***************************************************************************)
EXTENDS AuthFlow, TLAPS

AnyText == Emails \cup Passwords \cup Fullnames \cup {Empty}

AnyForm(s) == [text : [FieldsOf(s) -> AnyText], viewModel : [FieldsOf(s) -> AnyText],
               isEnabled : BOOLEAN]

\* The text fields and the view model of a form say the same, and the button is
\* enabled only if every field is filled in.
FormOK(s, form) ==
  /\ form \in AnyForm(s)
  /\ form.text = form.viewModel
  /\ form.isEnabled => formIsValid(s, form.viewModel)
  /\ \A field \in FieldsOf(s) : form.text[field] \in Texts(field)

FormsOK ==
  /\ forms = [s \in FormScreens |-> forms[s]]
  /\ \A s \in FormScreens : FormOK(s, forms[s])

\* What is known of a request that is out.
SignInOK(r) ==
  /\ r \in LoginRequest
  /\ r.email \in Emails /\ r.password \in Passwords
  /\ r.onScreen => screen \in FormScreens
  /\ r.onScreen /\ r.stage = "accepted" => currentUser # None \/ revoked

SignUpOK(r) ==
  /\ r \in SignUpRequest
  /\ r.email \in Emails /\ r.password \in Passwords /\ r.fullname \in Fullnames
  /\ r.stage \in {"created", "accepted"} => accounts[r.email] # None
  /\ r.kind = "upload" => r.uid = r.email /\ accounts[r.email] # None

RequestsOK ==
  /\ requests = [slot \in Slots |-> requests[slot]]
  /\ \A slot \in Slots :
       requests[slot] = None \/ SignInOK(requests[slot]) \/ SignUpOK(requests[slot])

RestOK ==
  /\ screen \in Screens
  /\ currentUser \in Emails \cup {None}
  /\ revoked \in BOOLEAN
  /\ accounts \in [Emails -> Passwords \cup {None}]
  /\ profiles \in [Emails -> Profile \cup {None}]
  /\ reported \subseteq Emails

\* The inductive invariant: a form does not let an empty field through; a sign-in
\* that is on screen has its login screen, and a user once it is accepted; a
\* sign-up that got past the backend has its account.
AuthInv == RestOK /\ FormsOK /\ RequestsOK /\ HomeNeedsUser /\ ProfileBelongsToAccount
----------------------------------------------------------------------------
(***************************************************************************)
(* Forms.                                                                  *)
(***************************************************************************)
\* What can be in a field of a form is a text.
LEMMA TextsAreTexts ==
  ASSUME NEW s \in FormScreens, NEW field \in FieldsOf(s)
  PROVE  Texts(field) \subseteq AnyText /\ Empty \in Texts(field)
  BY DEF FormScreens, FieldsOf, LoginFields, RegistrationFields, ResetPasswordFields,
         Texts, AnyText

\* A new form is blank, and so its button is disabled.
LEMMA NewFormIsOK ==
  ASSUME NEW s \in FormScreens
  PROVE  FormOK(s, newForm(s))
  <1>1. blank(s) \in [FieldsOf(s) -> AnyText]
    BY DEF blank, AnyText
  <1>2. newForm(s) \in AnyForm(s)
    BY <1>1 DEF newForm, AnyForm
  <1>3. \A field \in FieldsOf(s) : blank(s)[field] \in Texts(field)
    BY TextsAreTexts DEF blank
  <1> QED
    BY <1>2, <1>3 DEF FormOK, newForm

\* An edit reaches the text field and the view model, and the button follows.
LEMMA EditedFormIsOK ==
  ASSUME NEW s \in FormScreens, NEW form, FormOK(s, form),
         NEW field \in FieldsOf(s), NEW text \in Texts(field)
  PROVE  FormOK(s, updateForm(s, [form EXCEPT !.text[field] = text,
                                              !.viewModel[field] = text]))
  <1> DEFINE edited == [form.text EXCEPT ![field] = text]
             valid == formIsValid(s, edited)
             new == [text |-> edited, viewModel |-> edited, isEnabled |-> valid]
  <1>1. /\ form \in AnyForm(s)
        /\ form.text \in [FieldsOf(s) -> AnyText]
        /\ form.viewModel = form.text
    BY DEF FormOK, AnyForm
  <1>2. text \in AnyText
    BY TextsAreTexts
  <1>3. edited \in [FieldsOf(s) -> AnyText]
    BY <1>1, <1>2
  <1>4. \A f \in FieldsOf(s) : edited[f] \in Texts(f)
    BY <1>1 DEF FormOK
  <1>5. updateForm(s, [form EXCEPT !.text[field] = text, !.viewModel[field] = text]) = new
    <2> DEFINE half == [text |-> edited, viewModel |-> edited, isEnabled |-> form.isEnabled]
    <2>1. [form EXCEPT !.text[field] = text, !.viewModel[field] = text] = half
      <3> DEFINE first == [text |-> edited, viewModel |-> form.viewModel,
                           isEnabled |-> form.isEnabled]
      <3>1. [form EXCEPT !.text[field] = text] = first
        BY <1>1 DEF AnyForm
      <3>2. [first EXCEPT !.viewModel[field] = text] = half
        BY <1>1
      <3> QED
        BY <3>1, <3>2, Zenon
    <2>2. [half EXCEPT !.isEnabled = formIsValid(s, half.viewModel)] = new
      OBVIOUS
    <2> QED
      BY <2>1, <2>2 DEF updateForm
  <1>6. valid \in BOOLEAN
    BY DEF formIsValid
  <1> HIDE DEF edited, valid
  <1>7. new \in AnyForm(s)
    BY <1>3, <1>6 DEF AnyForm
  <1>8. FormOK(s, new)
    BY <1>4, <1>7 DEF FormOK, valid
  <1> QED
    BY <1>5, <1>8

\* One form changes, into one that is in order.
LEMMA FormStep ==
  ASSUME FormsOK, NEW s \in FormScreens, NEW form, FormOK(s, form),
         forms' = [forms EXCEPT ![s] = form]
  PROVE  FormsOK'
  <1>1. DOMAIN forms = FormScreens
    BY DEF FormsOK
  <1>2. forms' = [t \in FormScreens |-> forms'[t]]
    BY <1>1
  <1>3. \A t \in FormScreens : forms'[t] = IF t = s THEN form ELSE forms[t]
    BY <1>1
  <1>4. \A t \in FormScreens : FormOK(t, forms'[t])
    BY <1>3 DEF FormsOK
  <1> QED
    BY <1>2, <1>4 DEF FormsOK

\* New controllers for all the forms.
LEMMA NoFormsAreOK ==
  ASSUME forms' = noForms
  PROVE  FormsOK'
  <1>1. \A s \in FormScreens : forms'[s] = newForm(s)
    BY DEF noForms
  <1>2. forms' = [s \in FormScreens |-> forms'[s]]
    BY DEF noForms
  <1> QED
    BY <1>1, <1>2, NewFormIsOK DEF FormsOK

----------------------------------------------------------------------------
(***************************************************************************)
(* Requests.                                                               *)
(***************************************************************************)
\* What the requests that are out can rely on: their login screen stays, with a
\* user if it had one, and accounts stay.
Frame ==
  /\ screen \in FormScreens =>
       /\ screen' \in FormScreens
       /\ currentUser # None \/ revoked => currentUser' # None \/ revoked'
  /\ \A e \in Emails : accounts[e] # None => accounts'[e] # None

\* The kind of a request tells a sign-in from a sign-up.
LEMMA RequestKinds ==
  ASSUME RequestsOK, NEW slot \in Slots, NEW kind, IsOut(slot, kind)
  PROVE  /\ kind = "signIn" => SignInOK(requests[slot])
         /\ kind \in {"createUser", "upload"} => SignUpOK(requests[slot])
  <1>1. requests[slot] # None /\ requests[slot].kind = kind
    BY DEF IsOut
  <1>2. SignInOK(requests[slot]) => kind = "signIn"
    BY <1>1 DEF SignInOK, LoginRequest
  <1>3. SignUpOK(requests[slot]) => kind \in {"createUser", "upload"}
    BY <1>1 DEF SignUpOK, SignUpRequest
  <1> QED
    BY <1>1, <1>2, <1>3 DEF RequestsOK

\* All the requests stay as they are.
LEMMA RequestsKept ==
  ASSUME RequestsOK, Frame, UNCHANGED requests
  PROVE  RequestsOK'
  <1>1. \A slot \in Slots : requests'[slot] = requests[slot]
    OBVIOUS
  <1>2. ASSUME NEW slot \in Slots
        PROVE  requests'[slot] = None \/ SignInOK(requests[slot])' \/ SignUpOK(requests[slot])'
    <2>1. requests[slot] = None \/ SignInOK(requests[slot]) \/ SignUpOK(requests[slot])
      BY DEF RequestsOK
    <2> QED
      BY <1>1, <2>1 DEF SignInOK, SignUpOK, Frame
  <1> QED
    BY <1>2 DEF RequestsOK

\* One request changes, into one that is in order.
LEMMA RequestStep ==
  ASSUME RequestsOK, Frame, NEW slot \in Slots, NEW r,
         requests' = [requests EXCEPT ![slot] = r],
         r = None \/ SignInOK(r)' \/ SignUpOK(r)'
  PROVE  RequestsOK'
  <1>1. DOMAIN requests = Slots
    BY DEF RequestsOK
  <1>2. requests' = [s \in Slots |-> requests'[s]]
    BY <1>1
  <1>3. ASSUME NEW s \in Slots
        PROVE  requests'[s] = None \/ SignInOK(requests[s])' \/ SignUpOK(requests[s])'
    <2>1. CASE s = slot
      <3>1. requests'[s] = r
        BY <1>1, <2>1
      <3> QED
        BY <3>1 DEF SignInOK, SignUpOK
    <2>2. CASE s # slot
      <3>1. requests'[s] = requests[s]
        BY <1>1, <2>2
      <3>2. requests[s] = None \/ SignInOK(requests[s]) \/ SignUpOK(requests[s])
        BY DEF RequestsOK
      <3> QED
        BY <3>1, <3>2 DEF SignInOK, SignUpOK, Frame
    <2> QED
      BY <2>1, <2>2
  <1> QED
    BY <1>2, <1>3 DEF RequestsOK

\* No request is out.
LEMMA NoRequestsAreOK ==
  ASSUME requests' = [s \in Slots |-> None]
  PROVE  RequestsOK'
  BY DEF RequestsOK

----------------------------------------------------------------------------
(***************************************************************************)
(* Every step keeps the invariant.                                         *)
(***************************************************************************)
\* The screens that launching, signing out and the forms lead to.
LEMMA ScreenSteps ==
  ASSUME AuthInv,
         \/ relaunch \/ loginQueued \/ logout
         \/ showRegistrationController \/ showForgotPassword
         \/ showLoginController \/ handleDismissal
  PROVE  AuthInv'
  <1> USE DEF AuthInv
  <1>1. CASE relaunch
    <2>1. RestOK' /\ HomeNeedsUser' /\ ProfileBelongsToAccount'
      BY <1>1 DEF relaunch, authenticateUser, backend, RestOK, Screens, HomeNeedsUser,
                  ProfileBelongsToAccount
    <2>2. FormsOK' /\ RequestsOK'
      BY <1>1, NoFormsAreOK, NoRequestsAreOK DEF relaunch
    <2> QED
      BY <2>1, <2>2
  <1>2. CASE loginQueued
    <2>1. RestOK' /\ HomeNeedsUser' /\ ProfileBelongsToAccount' /\ Frame
      BY <1>2 DEF loginQueued, presentLoginController, backend, RestOK, Screens, FormScreens,
                  HomeNeedsUser, ProfileBelongsToAccount, Frame
    <2>2. FormsOK' /\ RequestsOK'
      BY <1>2, <2>1, NoFormsAreOK, RequestsKept DEF loginQueued, presentLoginController
    <2> QED
      BY <2>1, <2>2
  <1>3. CASE logout
    <2>1. RestOK' /\ HomeNeedsUser' /\ ProfileBelongsToAccount' /\ Frame
      BY <1>3 DEF logout, presentLoginController, backend, RestOK, Screens, FormScreens,
                  HomeNeedsUser, ProfileBelongsToAccount, Frame
    <2>2. FormsOK' /\ RequestsOK'
      BY <1>3, <2>1, NoFormsAreOK, RequestsKept DEF logout, presentLoginController
    <2> QED
      BY <2>1, <2>2
  <1>4. ASSUME NEW s \in FormScreens, push(s) \/ popFrom(s)
        PROVE  AuthInv'
    <2>1. RestOK' /\ HomeNeedsUser' /\ ProfileBelongsToAccount' /\ Frame
      BY <1>4 DEF push, popFrom, backend, RestOK, Screens, FormScreens,
                  HomeNeedsUser, ProfileBelongsToAccount, Frame
    <2>2. forms' = [forms EXCEPT ![s] = newForm(s)] /\ UNCHANGED requests
      BY <1>4 DEF push, popFrom
    <2>3. FormsOK' /\ RequestsOK'
      BY <2>1, <2>2, NewFormIsOK, FormStep, RequestsKept
    <2> QED
      BY <2>1, <2>3
  <1> QED
    BY <1>1, <1>2, <1>3, <1>4 DEF showRegistrationController, showForgotPassword,
       showLoginController, handleDismissal, FormScreens

\* An edit changes one form.
LEMMA EditStep ==
  ASSUME AuthInv, NEW field, NEW text \in Texts(field), textDidChange(field, text)
  PROVE  AuthInv'
  <1> USE DEF AuthInv
  <1> DEFINE form == updateForm(screen, [forms[screen] EXCEPT !.text[field] = text,
                                                              !.viewModel[field] = text])
  <1>1. /\ screen \in FormScreens /\ field \in FieldsOf(screen)
        /\ forms' = [forms EXCEPT ![screen] = form]
        /\ UNCHANGED <<screen, requests, currentUser, revoked, accounts, profiles, reported>>
    BY DEF textDidChange, backend
  <1>2. FormOK(screen, forms[screen])
    BY <1>1 DEF FormsOK
  <1>3. FormOK(screen, form)
    BY <1>1, <1>2, EditedFormIsOK
  <1> HIDE DEF form
  <1>4. FormsOK'
    BY <1>1, <1>3, FormStep
  <1>5. RestOK' /\ HomeNeedsUser' /\ ProfileBelongsToAccount' /\ Frame
    BY <1>1 DEF RestOK, HomeNeedsUser, ProfileBelongsToAccount, Frame
  <1>6. RequestsOK'
    BY <1>1, <1>5, RequestsKept
  <1> QED
    BY <1>4, <1>5, <1>6

\* A button that is touched sends what its text fields hold, none of it empty.
LEMMA SendStep ==
  ASSUME AuthInv, NEW slot \in Slots, handleLogin(slot) \/ handleSignUp(slot)
  PROVE  AuthInv'
  <1> USE DEF AuthInv
  <1>1. /\ UNCHANGED <<screen, forms, currentUser, revoked, accounts, profiles, reported>>
        /\ screen \in FormScreens
    BY DEF handleLogin, handleSignUp, send, client, backend, FormScreens
  <1>2. RestOK' /\ FormsOK' /\ HomeNeedsUser' /\ ProfileBelongsToAccount' /\ Frame
    BY <1>1 DEF RestOK, FormsOK, HomeNeedsUser, ProfileBelongsToAccount, Frame
  <1>3. CASE handleLogin(slot)
    <2> DEFINE text == forms["login"].text
    <2> PICK r : r = [kind |-> "signIn", email |-> text["email"],
                      password |-> text["password"], onScreen |-> TRUE, stage |-> "sent"]
      OBVIOUS
    <2>1. requests' = [requests EXCEPT ![slot] = r] /\ forms["login"].isEnabled
      BY <1>3 DEF handleLogin, send
    <2>2. text["email"] \in Emails /\ text["password"] \in Passwords
      <3>1. FormOK("login", forms["login"]) /\ FieldsOf("login") = {"email", "password"}
        BY DEF FormsOK, FormScreens, FieldsOf, LoginFields
      <3> QED
        BY <2>1, <3>1 DEF FormOK, formIsValid, Texts
    <2> HIDE DEF text
    <2>3. SignInOK(r)'
      BY <1>1, <2>2 DEF SignInOK, LoginRequest
    <2>4. RequestsOK'
      BY <1>2, <2>1, <2>3, RequestStep
    <2> QED
      BY <1>2, <2>4
  <1>4. CASE handleSignUp(slot)
    <2> DEFINE text == forms["registration"].text
    <2> PICK r : r = [kind |-> "createUser", email |-> text["email"],
                      password |-> text["password"], fullname |-> text["fullname"],
                      uid |-> None, stage |-> "sent"]
      OBVIOUS
    <2>1. requests' = [requests EXCEPT ![slot] = r] /\ forms["registration"].isEnabled
      BY <1>4 DEF handleSignUp, send
    <2>2. /\ text["email"] \in Emails /\ text["password"] \in Passwords
          /\ text["fullname"] \in Fullnames
      <3>1. /\ FormOK("registration", forms["registration"])
            /\ FieldsOf("registration") = {"email", "password", "fullname"}
        BY DEF FormsOK, FormScreens, FieldsOf, RegistrationFields
      <3> QED
        BY <2>1, <3>1 DEF FormOK, formIsValid, Texts
    <2> HIDE DEF text
    <2>3. SignUpOK(r)'
      BY <2>2 DEF SignUpOK, SignUpRequest
    <2>4. RequestsOK'
      BY <1>2, <2>1, <2>3, RequestStep
    <2> QED
      BY <1>2, <2>4
  <1> QED
    BY <1>3, <1>4

\* What the backend and the Auth client make of a request.
LEMMA BackendStep ==
  ASSUME AuthInv, NEW slot \in Slots,
         \/ signInAccepted(slot) \/ createUserOnBackend(slot) \/ createUserAccepted(slot)
         \/ uploadAccepted(slot) \/ requestRejected(slot)
  PROVE  AuthInv'
  <1> USE DEF AuthInv
  <1> PICK old : old = requests[slot]
    OBVIOUS
  <1>0. /\ UNCHANGED <<screen, forms, reported>>
        /\ FormsOK'
    BY DEF signInAccepted, createUserOnBackend, createUserAccepted, uploadAccepted,
           requestRejected, client, FormsOK
  <1>1. CASE signInAccepted(slot)
    <2> PICK r : r = [old EXCEPT !.stage = "accepted"]
      OBVIOUS
    <2>1. SignInOK(old) /\ requests' = [requests EXCEPT ![slot] = r]
      BY <1>1, RequestKinds DEF signInAccepted, InStage, answer
    <2>2. /\ currentUser' = old.email /\ currentUser' # None /\ revoked' = FALSE
          /\ UNCHANGED <<accounts, profiles>>
      BY <1>1, <2>1, AuthAssumption DEF signInAccepted, SignInOK, backend
    <2>3. SignInOK(r)'
      BY <1>0, <2>1, <2>2 DEF SignInOK, LoginRequest
    <2>4. RestOK' /\ HomeNeedsUser' /\ ProfileBelongsToAccount' /\ Frame
      BY <1>0, <2>1, <2>2 DEF RestOK, HomeNeedsUser, ProfileBelongsToAccount, Frame, SignInOK
    <2>5. RequestsOK'
      BY <2>1, <2>3, <2>4, RequestStep
    <2> QED
      BY <1>0, <2>4, <2>5
  <1>2. CASE createUserOnBackend(slot)
    <2> PICK r : r = [old EXCEPT !.stage = "created"]
      OBVIOUS
    <2>1. SignUpOK(old) /\ requests' = [requests EXCEPT ![slot] = r]
      BY <1>2, RequestKinds DEF createUserOnBackend, InStage, answer
    <2>2. /\ UNCHANGED <<currentUser, revoked, profiles>>
          /\ accounts' = [accounts EXCEPT ![old.email] = old.password]
          /\ old.email \in Emails /\ old.password \in Passwords /\ old.password # None
      BY <1>2, <2>1, AuthAssumption DEF createUserOnBackend, SignUpOK
    <2>3. /\ accounts' \in [Emails -> Passwords \cup {None}]
          /\ accounts'[old.email] # None
          /\ \A e \in Emails : accounts[e] # None => accounts'[e] # None
      BY <2>2 DEF RestOK
    <2>4. SignUpOK(r)'
      BY <2>1, <2>3 DEF SignUpOK, SignUpRequest
    <2>5. RestOK' /\ HomeNeedsUser' /\ ProfileBelongsToAccount' /\ Frame
      BY <1>0, <2>2, <2>3 DEF RestOK, HomeNeedsUser, ProfileBelongsToAccount, Frame
    <2>6. RequestsOK'
      BY <2>1, <2>4, <2>5, RequestStep
    <2> QED
      BY <1>0, <2>5, <2>6
  <1>3. CASE createUserAccepted(slot)
    <2> PICK r : r = [old EXCEPT !.stage = "accepted"]
      OBVIOUS
    <2>1. /\ SignUpOK(old) /\ requests' = [requests EXCEPT ![slot] = r]
          /\ old.stage = "created"
      BY <1>3, RequestKinds DEF createUserAccepted, InStage, answer
    <2>2. /\ currentUser' = old.email /\ currentUser' # None /\ revoked' = FALSE
          /\ UNCHANGED <<accounts, profiles>>
      BY <1>3, <2>1, AuthAssumption DEF createUserAccepted, SignUpOK, backend
    <2>3. SignUpOK(r)'
      BY <2>1, <2>2 DEF SignUpOK, SignUpRequest
    <2>4. RestOK' /\ HomeNeedsUser' /\ ProfileBelongsToAccount' /\ Frame
      BY <1>0, <2>1, <2>2 DEF RestOK, HomeNeedsUser, ProfileBelongsToAccount, Frame, SignUpOK
    <2>5. RequestsOK'
      BY <2>1, <2>3, <2>4, RequestStep
    <2> QED
      BY <1>0, <2>4, <2>5
  <1>4. CASE uploadAccepted(slot)
    <2> PICK r : r = [old EXCEPT !.stage = "accepted"]
      OBVIOUS
    <2> DEFINE profile == [email |-> old.email, fullname |-> old.fullname]
    <2>1. /\ SignUpOK(old) /\ requests' = [requests EXCEPT ![slot] = r]
          /\ old.kind = "upload"
      BY <1>4, RequestKinds DEF uploadAccepted, InStage, IsOut, answer
    <2>2. /\ UNCHANGED <<currentUser, revoked, accounts>>
          /\ profiles' = [profiles EXCEPT ![old.email] = profile]
          /\ old.email \in Emails /\ accounts[old.email] # None
      BY <1>4, <2>1 DEF uploadAccepted, SignUpOK
    <2>3. profile \in Profile
      BY <2>1 DEF SignUpOK, Profile
    <2>4. SignUpOK(r)'
      BY <2>1, <2>2 DEF SignUpOK, SignUpRequest
    <2>5. profile.email = old.email
      OBVIOUS
    <2> HIDE DEF profile
    <2>6. RestOK' /\ HomeNeedsUser' /\ ProfileBelongsToAccount' /\ Frame
      BY <1>0, <2>2, <2>3, <2>5 DEF RestOK, HomeNeedsUser, ProfileBelongsToAccount, Frame
    <2>7. RequestsOK'
      BY <2>1, <2>4, <2>6, RequestStep
    <2> QED
      BY <1>0, <2>6, <2>7
  <1>5. CASE requestRejected(slot)
    <2> PICK r : r = [old EXCEPT !.stage = "rejected"]
      OBVIOUS
    <2>1. /\ SignInOK(old) \/ SignUpOK(old)
          /\ requests' = [requests EXCEPT ![slot] = r]
      BY <1>5, RequestKinds DEF requestRejected, InStage, answer
    <2>2. UNCHANGED <<currentUser, revoked, accounts, profiles>>
      BY <1>5 DEF requestRejected, backend
    <2>3. SignInOK(r)' \/ SignUpOK(r)'
      BY <1>0, <2>1, <2>2 DEF SignInOK, SignUpOK, LoginRequest, SignUpRequest
    <2>4. RestOK' /\ HomeNeedsUser' /\ ProfileBelongsToAccount' /\ Frame
      BY <1>0, <2>2 DEF RestOK, HomeNeedsUser, ProfileBelongsToAccount, Frame
    <2>5. RequestsOK'
      BY <2>1, <2>3, <2>4, RequestStep
    <2> QED
      BY <1>0, <2>4, <2>5
  <1> QED
    BY <1>1, <1>2, <1>3, <1>4, <1>5

\* The token of the user is revoked.
LEMMA ForcedStep ==
  ASSUME AuthInv, signOutByForce
  PROVE  AuthInv'
  <1>1. /\ currentUser' = None /\ revoked' = TRUE
        /\ UNCHANGED <<screen, forms, requests, accounts, profiles, reported>>
    BY DEF signOutByForce, client, backend
  <1>2. /\ RestOK' /\ FormsOK' /\ HomeNeedsUser' /\ ProfileBelongsToAccount' /\ Frame
    BY <1>1 DEF AuthInv, RestOK, FormsOK, HomeNeedsUser, ProfileBelongsToAccount, Frame
  <1>3. RequestsOK'
    BY <1>1, <1>2, RequestsKept DEF AuthInv
  <1> QED
    BY <1>2, <1>3 DEF AuthInv

\* The login screen is dismissed by a sign-in that was accepted on it: there is
\* a user, and the other sign-ins are no longer on screen.
LEMMA DismissStep ==
  ASSUME AuthInv, NEW slot \in Slots, InStage(slot, "signIn", "accepted"),
         requests[slot].onScreen, dismissLogin(slot),
         UNCHANGED <<currentUser, revoked, accounts, profiles, reported>>
  PROVE  AuthInv'
  <1> USE DEF AuthInv
  <1>1. SignInOK(requests[slot]) /\ requests[slot].stage = "accepted"
    BY RequestKinds DEF InStage
  <1>2. currentUser # None \/ revoked
    BY <1>1 DEF SignInOK
  <1>3. RestOK' /\ HomeNeedsUser' /\ ProfileBelongsToAccount'
    BY <1>2 DEF dismissLogin, RestOK, Screens, HomeNeedsUser, ProfileBelongsToAccount
  <1>4. FormsOK'
    BY NoFormsAreOK DEF dismissLogin
  <1>5. ASSUME NEW s \in Slots
        PROVE  requests'[s] = None \/ SignInOK(requests[s])' \/ SignUpOK(requests[s])'
    <2>1. CASE s = slot
      BY <2>1 DEF dismissLogin
    <2>2. CASE s # slot /\ IsOut(s, "signIn")
      <3> PICK r : r = requests[s]
        OBVIOUS
      <3> PICK hidden : hidden = [r EXCEPT !.onScreen = FALSE]
        OBVIOUS
      <3>1. requests'[s] = hidden
        BY <2>2 DEF dismissLogin
      <3>2. r \in LoginRequest /\ r.email \in Emails /\ r.password \in Passwords
        BY <2>2, RequestKinds DEF SignInOK
      <3>3. /\ hidden \in LoginRequest /\ hidden.email \in Emails
            /\ hidden.password \in Passwords /\ hidden.onScreen = FALSE
        BY <3>2 DEF LoginRequest
      <3> QED
        BY <3>1, <3>3 DEF SignInOK
    <2>3. CASE s # slot /\ ~IsOut(s, "signIn")
      <3>1. requests'[s] = requests[s]
        BY <2>3 DEF dismissLogin
      <3>2. requests[s] = None \/ SignUpOK(requests[s])
        BY <2>3 DEF RequestsOK, IsOut, SignInOK, LoginRequest
      <3> QED
        BY <3>1, <3>2 DEF SignUpOK
    <2> QED
      BY <2>1, <2>2, <2>3
  <1>6. requests' = [s \in Slots |-> requests'[s]]
    BY DEF dismissLogin
  <1>7. RequestsOK'
    BY <1>5, <1>6 DEF RequestsOK
  <1> QED
    BY <1>3, <1>4, <1>7

\* The completions.
LEMMA CompletionStep ==
  ASSUME AuthInv, NEW slot \in Slots,
         signInCompletion(slot) \/ createUserCompletion(slot) \/ uploadCompletion(slot)
  PROVE  AuthInv'
  <1> USE DEF AuthInv
  \* A completion that only ends its request, and may report a sign-up.
  <1>a. ASSUME requests' = [requests EXCEPT ![slot] = None], reported' \subseteq Emails,
               UNCHANGED <<screen, forms, currentUser, revoked, accounts, profiles>>
        PROVE  AuthInv'
    <2>1. RestOK' /\ FormsOK' /\ HomeNeedsUser' /\ ProfileBelongsToAccount' /\ Frame
      BY <1>a DEF RestOK, FormsOK, HomeNeedsUser, ProfileBelongsToAccount, Frame
    <2>2. RequestsOK'
      BY <1>a, <2>1, RequestStep
    <2> QED
      BY <2>1, <2>2
  <1>0. reported \subseteq Emails
    BY DEF RestOK
  <1>1. CASE signInCompletion(slot)
    <2>1. CASE InStage(slot, "signIn", "accepted") /\ requests[slot].onScreen /\ dismissLogin(slot)
      BY <1>1, <2>1, DismissStep DEF signInCompletion, backend
    <2>2. CASE requests' = [requests EXCEPT ![slot] = None] /\ UNCHANGED client
      BY <1>0, <1>1, <1>a, <2>2 DEF signInCompletion, client, backend
    <2> QED
      BY <1>1, <2>1, <2>2 DEF signInCompletion
  <1>2. CASE createUserCompletion(slot)
    <2>1. CASE InStage(slot, "createUser", "rejected")
      BY <1>0, <1>2, <1>a, <2>1 DEF createUserCompletion, InStage, client, backend
    <2>2. CASE InStage(slot, "createUser", "accepted")
      <3> PICK old : old = requests[slot]
        OBVIOUS
      <3> PICK r : r = [old EXCEPT !.kind = "upload", !.stage = "sent", !.uid = old.email]
        OBVIOUS
      <3>1. SignUpOK(old) /\ old.stage = "accepted"
        BY <2>2, RequestKinds DEF InStage
      <3>2. /\ requests' = [requests EXCEPT ![slot] = r]
            /\ UNCHANGED <<screen, forms, currentUser, revoked, accounts, profiles, reported>>
        BY <1>2, <2>2 DEF createUserCompletion, InStage, client, backend
      <3>3. /\ r \in SignUpRequest
            /\ r.kind = "upload" /\ r.stage = "sent" /\ r.uid = old.email
            /\ r.email = old.email /\ r.password = old.password /\ r.fullname = old.fullname
        BY <3>1 DEF SignUpOK, SignUpRequest
      <3>4. SignUpOK(r)'
        BY <3>1, <3>2, <3>3 DEF SignUpOK
      <3>5. RestOK' /\ FormsOK' /\ HomeNeedsUser' /\ ProfileBelongsToAccount' /\ Frame
        BY <3>2 DEF RestOK, FormsOK, HomeNeedsUser, ProfileBelongsToAccount, Frame
      <3>6. RequestsOK'
        BY <3>2, <3>4, <3>5, RequestStep
      <3> QED
        BY <3>5, <3>6
    <2> QED
      BY <1>2, <2>1, <2>2 DEF createUserCompletion
  <1>3. CASE uploadCompletion(slot)
    <2>1. SignUpOK(requests[slot]) /\ requests[slot].kind = "upload"
      BY <1>3, RequestKinds DEF uploadCompletion, Answered, InStage, IsOut
    <2>2. reported' \subseteq Emails
      BY <1>0, <1>3, <2>1 DEF uploadCompletion, SignUpOK
    <2> QED
      BY <1>3, <1>a, <2>2 DEF uploadCompletion, client, backend
  <1> QED
    BY <1>1, <1>2, <1>3

\* Every step of Next keeps the invariant.
LEMMA AuthStep == AuthInv /\ [Next]_vars => AuthInv'
  <1> SUFFICES ASSUME AuthInv, [Next]_vars
               PROVE  AuthInv'
    OBVIOUS
  <1>1. CASE UNCHANGED vars
    <2>1. UNCHANGED <<screen, forms, requests, currentUser, revoked, accounts, profiles, reported>>
      BY <1>1 DEF vars
    <2>2. RestOK' /\ FormsOK' /\ HomeNeedsUser' /\ ProfileBelongsToAccount' /\ Frame
      BY <2>1 DEF AuthInv, RestOK, FormsOK, HomeNeedsUser, ProfileBelongsToAccount, Frame
    <2>3. RequestsOK'
      BY <2>1, <2>2, RequestsKept DEF AuthInv
    <2> QED
      BY <2>2, <2>3 DEF AuthInv
  <1>2. CASE Next
    BY <1>2, ScreenSteps, EditStep, SendStep, BackendStep, ForcedStep, CompletionStep DEF Next
  <1> QED
    BY <1>1, <1>2

LEMMA AuthInvariant == Spec => []AuthInv
  <1>1. Init => AuthInv
    <2> SUFFICES ASSUME Init
                 PROVE  AuthInv
      OBVIOUS
    <2>1. RestOK /\ HomeNeedsUser /\ ProfileBelongsToAccount
      BY DEF Init, authenticateUser, RestOK, Screens, HomeNeedsUser, ProfileBelongsToAccount
    <2>2. RequestsOK
      BY DEF Init, RequestsOK
    <2>3. \A s \in FormScreens : forms[s] = newForm(s)
      BY DEF Init, noForms
    <2>4. forms = [s \in FormScreens |-> forms[s]]
      BY DEF Init, noForms
    <2>5. FormsOK
      BY <2>3, <2>4, NewFormIsOK DEF FormsOK
    <2> QED
      BY <2>1, <2>2, <2>5 DEF AuthInv
  <1> QED
    BY <1>1, AuthStep, PTL DEF Spec

----------------------------------------------------------------------------
(***************************************************************************)
(* The theorems.                                                           *)
(***************************************************************************)
\* The screens, forms and requests keep their types, however requests, edits,
\* relaunches and revocations interleave.
THEOREM TypeCorrect == Spec => []TypeOK
  <1>1. AuthInv => TypeOK
    <2> SUFFICES ASSUME AuthInv
                 PROVE  TypeOK
      OBVIOUS
    <2>1. ASSUME NEW s \in FormScreens
          PROVE  /\ forms[s].isEnabled \in BOOLEAN
                 /\ \A field \in FieldsOf(s) : /\ forms[s].text[field] \in Texts(field)
                                               /\ forms[s].viewModel[field] \in Texts(field)
      BY DEF AuthInv, FormsOK, FormOK, AnyForm
    <2>2. \A slot \in Slots : requests[slot] \in LoginRequest \cup SignUpRequest \cup {None}
      BY DEF AuthInv, RequestsOK, SignInOK, SignUpOK
    <2>3. requests \in [Slots -> LoginRequest \cup SignUpRequest \cup {None}]
      BY <2>2 DEF AuthInv, RequestsOK
    <2> QED
      BY <2>1, <2>3 DEF AuthInv, RestOK, TypeOK
  <1> QED
    BY <1>1, AuthInvariant, PTL

\* The home screen is on display only for a signed-in user, or one whose token
\* was revoked under it: no late completion uncovers it for nobody.
THEOREM HomeAlwaysNeedsUser == Spec => []HomeNeedsUser
  <1>1. AuthInv => HomeNeedsUser
    BY DEF AuthInv
  <1> QED
    BY <1>1, AuthInvariant, PTL

\* No request leaves the app with an empty field, although the handlers read the
\* text fields and the buttons follow the view model.
THEOREM CredentialsAreNeverEmpty == Spec => []NoEmptyCredentials
  <1>1. AuthInv => NoEmptyCredentials
    <2> SUFFICES ASSUME AuthInv, NEW slot \in Slots, requests[slot] # None
                 PROVE  /\ requests[slot].email # Empty
                        /\ requests[slot].password # Empty
                        /\ requests[slot].kind # "signIn" => requests[slot].fullname # Empty
      BY DEF NoEmptyCredentials
    <2>1. SignInOK(requests[slot]) \/ SignUpOK(requests[slot])
      BY DEF AuthInv, RequestsOK
    <2> QED
      BY <2>1, AuthAssumption DEF SignInOK, SignUpOK, LoginRequest
  <1> QED
    BY <1>1, AuthInvariant, PTL

\* A profile in the database belongs to an account and carries its email,
\* whatever happens on the screens while the account is being made.
THEOREM ProfileAlwaysBelongsToAccount == Spec => []ProfileBelongsToAccount
  <1>1. AuthInv => ProfileBelongsToAccount
    BY DEF AuthInv
  <1> QED
    BY <1>1, AuthInvariant, PTL
=============================================================================

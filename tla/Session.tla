------------------------------ MODULE Session ------------------------------
(***************************************************************************)
(* Registering, signing in and the profile on one phone.  A registration   *)
(* is a chain of calls to the cloud (createUser, putData, downloadURL,     *)
(* then setData), a login one of two (signIn, then getDocument, for which  *)
(* the tab bar does not wait).  Handlers read the text fields of their     *)
(* screen when they run and write the user defaults, from which the        *)
(* profile screen is filled once, when it is first selected.               *)
(*                                                                         *)
(* A user stands for an e-mail address, the uid of its account and the     *)
(* names that belong to it.  What the text fields of a screen describe is  *)
(* one user, or Blank when a name was cleared.                             *)
(***************************************************************************)
EXTENDS Integers, FiniteSets

CONSTANTS
  User,        \* the people who use the phone
  Blank,       \* text fields with an empty one among them
  Nobody,      \* no user, no document, nothing stored
  NotLoaded,   \* a profile screen that has not been selected yet
  MaxVisits,   \* bound: how many registration and login screens are opened
  MaxRequests  \* bound: how many chains of calls are open at a time

ASSUME ConstantsAssumption ==
  /\ Blank \notin User /\ Nobody \notin User /\ Blank # Nobody
  /\ MaxVisits \in Nat /\ MaxRequests \in Nat

VARIABLES
  accounts,   \* users with an account
  avatars,    \* users whose avatar is stored
  docs,       \* collection "ecoUsers": whose data each user's document holds
  defaults,   \* the user defaults: the names and the e-mail, and the uid
  screen,     \* "welcome", "registration", "authorization", "tabBar" or "dead"
  visit,      \* the number of the registration or login screen in front
  fields,     \* what the text fields of each of those screens describe
  requests,   \* the open chains of calls
  mapUser,    \* userID of the map screen
  authUser,   \* Auth.auth().currentUser
  profile,    \* what the profile screen shows, once it has loaded
  inits,      \* history: how often initUser stored a user's document
  disturbed   \* history: something happened while a chain was open, or failed

device == << defaults, screen, visit, fields, mapUser, authUser, profile >>
cloud == << accounts, avatars, docs, inits >>
vars == << cloud, device, requests, disturbed >>

Stored == [names : User \cup {Blank, Nobody}, email : User \cup {Blank, Nobody},
           uid : User \cup {Nobody}]

NothingStored == [names |-> Nobody, email |-> Nobody, uid |-> Nobody]

Step == {"createUser", "putData", "downloadURL", "signIn", "getDocument"}

\* The same call may be open twice, so every chain has a slot of its own.
Request == [slot : 1..MaxRequests, visit : 1..MaxVisits, user : User, step : Step]

Init ==
  /\ accounts = {}
  /\ avatars = {}
  /\ docs = [u \in User |-> Nobody]
  /\ defaults = NothingStored
  /\ screen = "welcome"
  /\ visit = 0
  /\ fields = [v \in 1..MaxVisits |-> Blank]
  /\ requests = {}
  /\ mapUser = Nobody
  /\ authUser = Nobody
  /\ profile = NotLoaded
  /\ inits = [u \in User |-> 0]
  /\ disturbed = FALSE

-----------------------------------------------------------------------------
\* The welcome screen's two buttons; a new screen has empty fields.
Open(kind) ==
  /\ screen = "welcome"
  /\ visit < MaxVisits
  /\ visit' = visit + 1
  /\ screen' = kind
  /\ UNCHANGED << cloud, defaults, fields, requests, mapUser, authUser, profile,
                  disturbed >>

OnForm == screen \in {"registration", "authorization"}

\* exitButton: the screen goes, its handlers stay.
Exit ==
  /\ OnForm
  /\ screen' = "welcome"
  /\ UNCHANGED << cloud, defaults, visit, fields, requests, mapUser, authUser,
                  profile, disturbed >>

\* The user edits the text fields.
Type(content) ==
  /\ OnForm
  /\ content # fields[visit]
  /\ fields' = [fields EXCEPT ![visit] = content]
  /\ disturbed' = (disturbed \/ requests # {})
  /\ UNCHANGED << cloud, defaults, screen, visit, requests, mapUser, authUser,
                  profile >>

\* checkIncorrectData and checkValidData.
FieldsFilled == fields[visit] # Blank

\* signUpButton and buttonInput: the first call of a chain.
Submit(kind, step) ==
  /\ screen = kind
  /\ FieldsFilled
  /\ \E n \in 1..MaxRequests :
       /\ \A r \in requests : r.slot # n
       /\ requests' = requests \cup
            {[slot |-> n, visit |-> visit, user |-> fields[visit], step |-> step]}
  /\ disturbed' = (disturbed \/ requests # {})
  /\ UNCHANGED << cloud, device >>

SignUpButton == Submit("registration", "createUser")

ButtonInput == Submit("authorization", "signIn")

-----------------------------------------------------------------------------
\* A chain goes on with its next call, or ends.
GoOn(r, step) == requests' = (requests \ {r}) \cup {[r EXCEPT !.step = step]}

End(r) == requests' = requests \ {r}

\* Any call may fail: the user is told at most that it did.
Fail(r) ==
  /\ End(r)
  /\ disturbed' = TRUE
  /\ UNCHANGED << cloud, device >>

\* A handler presents the tab bar, in vain if its screen is not in front; the
\* map screen takes its user from the authentication.
PresentTabBar(r, signedIn) ==
  IF OnForm /\ visit = r.visit
  THEN screen' = "tabBar" /\ mapUser' = signedIn
  ELSE UNCHANGED << screen, mapUser >>

\* Mutant of CreateUser: an existing account is taken for a new one.
CreateUserAgain(r) ==
  /\ r.step = "createUser"
  /\ accounts' = accounts \cup {r.user}
  /\ authUser' = r.user
  /\ GoOn(r, "putData")
  /\ UNCHANGED << avatars, docs, inits, defaults, screen, visit, fields, mapUser,
                  profile, disturbed >>

\* Mutant of CreateUser: the avatar is not uploaded.
CreateUserWithoutAvatar(r) ==
  /\ r.step = "createUser"
  /\ r.user \notin accounts
  /\ accounts' = accounts \cup {r.user}
  /\ authUser' = r.user
  /\ GoOn(r, "downloadURL")
  /\ UNCHANGED << avatars, docs, inits, defaults, screen, visit, fields, mapUser,
                  profile, disturbed >>

\* The account is created; the avatar is uploaded next.
CreateUser(r) ==
  /\ r.step = "createUser"
  /\ r.user \notin accounts
  /\ accounts' = accounts \cup {r.user}
  /\ authUser' = r.user
  /\ GoOn(r, "putData")
  /\ UNCHANGED << avatars, docs, inits, defaults, screen, visit, fields, mapUser,
                  profile, disturbed >>

PutData(r) ==
  /\ r.step = "putData"
  /\ avatars' = avatars \cup {r.user}
  /\ GoOn(r, "downloadURL")
  /\ UNCHANGED << accounts, docs, inits, device, disturbed >>

\* The last handler: store the document, which the cloud may refuse, and the
\* defaults, both from the text fields as they are now, then show the tab bar.
DownloadURL(r) ==
  /\ r.step = "downloadURL"
  /\ \/ /\ docs' = [docs EXCEPT ![r.user] = fields[r.visit]]
        /\ inits' = [inits EXCEPT ![r.user] = @ + 1]
        /\ UNCHANGED disturbed
     \/ disturbed' = TRUE /\ UNCHANGED << docs, inits >>
  /\ defaults' = [names |-> fields[r.visit], email |-> fields[r.visit],
                  uid |-> r.user]
  /\ PresentTabBar(r, authUser)
  /\ End(r)
  /\ UNCHANGED << accounts, avatars, visit, fields, authUser, profile >>

\* Mutant of SignIn: the tab bar is shown before the answer is looked at.
SignInAnyhow(r) ==
  /\ r.step = "signIn"
  /\ authUser' = IF r.user \in accounts THEN r.user ELSE authUser
  /\ PresentTabBar(r, authUser')
  /\ GoOn(r, "getDocument")
  /\ UNCHANGED << cloud, defaults, visit, fields, profile, disturbed >>

\* The account is there: ask for the document and show the tab bar at once.
SignIn(r) ==
  /\ r.step = "signIn"
  /\ r.user \in accounts
  /\ authUser' = r.user
  /\ PresentTabBar(r, r.user)
  /\ GoOn(r, "getDocument")
  /\ UNCHANGED << cloud, defaults, visit, fields, profile, disturbed >>

\* Mutant of GetDocument: the defaults keep the uid they have.
GetDocumentButUid(r) ==
  /\ r.step = "getDocument"
  /\ docs[r.user] # Nobody
  /\ defaults' = [defaults EXCEPT !.names = docs[r.user], !.email = fields[r.visit]]
  /\ End(r)
  /\ UNCHANGED << cloud, screen, visit, fields, mapUser, authUser, profile, disturbed >>

\* getUserFieldsAndPushToDefaults: the names of the document, the e-mail of the
\* text field.
GetDocument(r) ==
  /\ r.step = "getDocument"
  /\ docs[r.user] # Nobody
  /\ defaults' = [names |-> docs[r.user], email |-> fields[r.visit], uid |-> r.user]
  /\ End(r)
  /\ UNCHANGED << cloud, screen, visit, fields, mapUser, authUser, profile, disturbed >>

\* The process ends: chains, screens and texts are gone, the defaults are not.
Quit ==
  /\ screen # "dead"
  /\ screen' = "dead"
  /\ requests' = {}
  /\ mapUser' = Nobody
  /\ profile' = NotLoaded
  /\ fields' = [v \in 1..MaxVisits |-> Blank]
  /\ UNCHANGED << cloud, defaults, visit, authUser >>

\* The document is missing: the forced cast of its fields traps.
TrapOnDocument(r) ==
  /\ r.step = "getDocument"
  /\ docs[r.user] = Nobody
  /\ Quit
  /\ disturbed' = TRUE

-----------------------------------------------------------------------------
\* The profile tab is selected for the first time.
LoadProfile ==
  /\ screen = "tabBar"
  /\ profile = NotLoaded
  /\ profile' = defaults
  /\ disturbed' = (disturbed \/ requests # {})
  /\ UNCHANGED << cloud, defaults, screen, visit, fields, mapUser, authUser, requests >>

Kill == Quit /\ UNCHANGED disturbed

Launch ==
  /\ screen = "dead"
  /\ screen' = "welcome"
  /\ UNCHANGED << cloud, defaults, visit, fields, mapUser, authUser, profile,
                  requests, disturbed >>

Handle(r) ==
  \/ CreateUser(r)
  \/ PutData(r)
  \/ DownloadURL(r)
  \/ SignIn(r)
  \/ GetDocument(r)
  \/ TrapOnDocument(r)
  \/ Fail(r)

Next ==
  \/ \E kind \in {"registration", "authorization"} : Open(kind)
  \/ Exit
  \/ \E content \in User \cup {Blank} : Type(content)
  \/ SignUpButton
  \/ ButtonInput
  \/ \E r \in requests : Handle(r)
  \/ LoadProfile
  \/ Kill
  \/ Launch

Spec == Init /\ [][Next]_vars

-----------------------------------------------------------------------------
\* The types of the variables.
TypeOK ==
  /\ accounts \in SUBSET User /\ avatars \in SUBSET User
  /\ docs \in [User -> User \cup {Blank, Nobody}]
  /\ defaults \in Stored /\ profile \in Stored \cup {NotLoaded}
  /\ screen \in {"welcome", "registration", "authorization", "tabBar", "dead"}
  /\ visit \in 0..MaxVisits
  /\ fields \in [1..MaxVisits -> User \cup {Blank}]
  /\ requests \in SUBSET Request
  /\ mapUser \in User \cup {Nobody} /\ authUser \in User \cup {Nobody}
  /\ inits \in [User -> Nat]
  /\ disturbed \in BOOLEAN

\* initUser stores a user's document at most once, so that no second or late
\* registration resets a rating to 0.
StoredOnce == \A u \in User : inits[u] <= 1

\* A document in "ecoUsers" has an account and an avatar: no chain that failed,
\* was left behind or died half-way leaves a document without the two.
DocumentsComplete ==
  \A u \in User : docs[u] # Nobody => u \in accounts /\ u \in avatars

\* While the tab bar is shown, the map screen's userID, which throwing trash
\* unwraps, is a user with an account.
MapUserKnown == screen = "tabBar" => mapUser \in accounts

\* As long as nobody edits, submits or opens the profile while calls are open,
\* and none fails, the profile shows the data of the user of the map screen,
\* although neither screen tells the other.
ProfileOwnUndisturbed ==
  profile # NotLoaded /\ ~disturbed =>
    profile = [names |-> mapUser, email |-> mapUser, uid |-> mapUser]

\* AuthorizationViewController.swift:67 and 68 take it that the document of a
\* user who can sign in is there and has both names.
DocumentThere ==
  \A r \in requests : r.step = "getDocument" => docs[r.user] # Nobody
=============================================================================

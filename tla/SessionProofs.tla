---------------------------- MODULE SessionProofs ----------------------------
(***************************************************************************)
(* Proofs about Session for any people, screens and open chains of calls.  *)
(* The invariants of the cloud rest on what a registration has behind it   *)
(* when a step of it is open: an account, which keeps a second one of the  *)
(* same user from getting that far; an avatar before the last step; no     *)
(* document yet; and somebody who is signed in.  That of the profile rests *)
(* on what an undisturbed chain finds: the text fields as submitted, and   *)
(* its own user signed in and on the map screen.                           *)
(***************************************************************************)
EXTENDS Session, TLAPS

\* The registrations whose account was created.
Registering(r) == r.step \in {"putData", "downloadURL"}

ChainInv ==
  \A r \in requests : Registering(r) =>
    /\ r.user \in accounts
    /\ r.step = "downloadURL" => r.user \in avatars
    /\ inits[r.user] = 0
    /\ authUser \in accounts
    /\ \A s \in requests : Registering(s) /\ s.user = r.user => s = r

Inv == TypeOK /\ ChainInv /\ StoredOnce /\ DocumentsComplete /\ MapUserKnown

\* A document that was stored once belongs to an account.
StoredInv == \A u \in User : inits[u] # 0 => u \in accounts

\* A screen in front has been opened.
VisitInv == OnForm => visit # 0

IInv == Inv /\ StoredInv /\ VisitInv

-----------------------------------------------------------------------------
LEMMA InitIInv == Init => IInv
<1>1. SUFFICES ASSUME Init PROVE IInv
  OBVIOUS
<1>2. TypeOK
  <2>1. 0 \in 0..MaxVisits
    BY ConstantsAssumption
  <2>2. NothingStored \in Stored
    BY DEF NothingStored, Stored
  <2>3. inits \in [User -> Nat] /\ docs \in [User -> User \cup {Blank, Nobody}]
    BY <1>1 DEF Init
  <2>4. fields \in [1..MaxVisits -> User \cup {Blank}]
    BY <1>1 DEF Init
  <2>5. QED
    BY <1>1, <2>1, <2>2, <2>3, <2>4 DEF Init, TypeOK
<1>3. ChainInv /\ StoredOnce /\ DocumentsComplete /\ MapUserKnown /\ StoredInv
      /\ VisitInv
  BY <1>1 DEF Init, ChainInv, StoredOnce, DocumentsComplete, MapUserKnown,
              StoredInv, VisitInv, OnForm
<1>4. QED
  BY <1>2, <1>3 DEF IInv, Inv

\* A chain that goes on is still a chain.
LEMMA GoOnType ==
  ASSUME requests \in SUBSET Request, NEW r \in requests, NEW step \in Step,
         GoOn(r, step)
  PROVE  /\ requests' \in SUBSET Request
         /\ [r EXCEPT !.step = step].step = step
         /\ [r EXCEPT !.step = step].user = r.user
<1>1. r \in Request
  OBVIOUS
<1>2. [r EXCEPT !.step = step] \in Request
  BY <1>1 DEF Request
<1>3. QED
  BY <1>1, <1>2 DEF GoOn, Request

\* Steps that leave the cloud and the authentication alone and open no chain
\* behind the first call keep what is known of the chains.
LEMMA ChainsKeep ==
  ASSUME IInv, UNCHANGED << accounts, avatars, inits, authUser >>,
         \A r \in requests' : Registering(r) => r \in requests
  PROVE  ChainInv' /\ StoredOnce' /\ StoredInv'
<1>1. ChainInv'
  <2>1. SUFFICES ASSUME NEW r \in requests', Registering(r)
                 PROVE  /\ r.user \in accounts
                        /\ r.step = "downloadURL" => r.user \in avatars
                        /\ inits[r.user] = 0
                        /\ authUser \in accounts
                        /\ \A s \in requests' :
                             Registering(s) /\ s.user = r.user => s = r
    BY DEF ChainInv, Registering
  <2>2. r \in requests
    BY <2>1
  <2>3. QED
    BY <2>1, <2>2 DEF IInv, Inv, ChainInv
<1>2. QED
  BY <1>1 DEF IInv, Inv, StoredOnce, StoredInv

LEMMA SubmitKeeps ==
  ASSUME IInv, NEW kind \in {"registration", "authorization"},
         NEW step \in {"createUser", "signIn"}, Submit(kind, step)
  PROVE  IInv'
<1>1. PICK n \in 1..MaxRequests :
        requests' = requests \cup
          {[slot |-> n, visit |-> visit, user |-> fields[visit], step |-> step]}
  BY DEF Submit
<1>2. UNCHANGED << cloud, device >> /\ screen = kind /\ fields[visit] # Blank
  BY DEF Submit, FieldsFilled
<1>3. disturbed' \in BOOLEAN
  BY DEF Submit, IInv, Inv, TypeOK
<1>4. visit \in 1..MaxVisits
  BY <1>2 DEF IInv, Inv, TypeOK, VisitInv, OnForm
<1>5. fields[visit] \in User
  BY <1>2, <1>4 DEF IInv, Inv, TypeOK
<1>6. [slot |-> n, visit |-> visit, user |-> fields[visit], step |-> step] \in Request
  BY <1>4, <1>5 DEF Request, Step
<1>7. TypeOK'
  BY <1>1, <1>2, <1>3, <1>6 DEF IInv, Inv, TypeOK, cloud, device
<1>8. ChainInv' /\ StoredOnce' /\ StoredInv'
  <2>1. \A r \in requests' : Registering(r) => r \in requests
    BY <1>1 DEF Registering
  <2>2. QED
    BY <1>2, <2>1, ChainsKeep DEF cloud, device
<1>9. DocumentsComplete' /\ MapUserKnown' /\ VisitInv'
  BY <1>2 DEF IInv, Inv, DocumentsComplete, MapUserKnown, VisitInv, OnForm,
              cloud, device
<1>10. QED
  BY <1>7, <1>8, <1>9 DEF IInv, Inv

-----------------------------------------------------------------------------
LEMMA FailKeeps == ASSUME IInv, NEW r \in requests, Fail(r) PROVE IInv'
<1>1. requests' = requests \ {r} /\ disturbed' = TRUE /\ UNCHANGED << cloud, device >>
  BY DEF Fail, End
<1>2. TypeOK'
  BY <1>1 DEF IInv, Inv, TypeOK, cloud, device
<1>3. ChainInv' /\ StoredOnce' /\ StoredInv'
  BY <1>1, ChainsKeep DEF cloud, device
<1>4. DocumentsComplete' /\ MapUserKnown' /\ VisitInv'
  BY <1>1 DEF IInv, Inv, DocumentsComplete, MapUserKnown, VisitInv, OnForm,
              cloud, device
<1>5. QED
  BY <1>2, <1>3, <1>4 DEF IInv, Inv

LEMMA CreateUserKeeps == ASSUME IInv, NEW r \in requests, CreateUser(r) PROVE IInv'
<1>1. /\ r.step = "createUser" /\ r.user \notin accounts
      /\ accounts' = accounts \cup {r.user} /\ authUser' = r.user
      /\ GoOn(r, "putData")
      /\ UNCHANGED << avatars, docs, inits, defaults, screen, visit, fields, mapUser,
                      profile, disturbed >>
  BY DEF CreateUser
<1>2. r \in Request /\ r.user \in User
  BY DEF IInv, Inv, TypeOK, Request
<1>3. requests' \in SUBSET Request
  BY <1>1, GoOnType DEF IInv, Inv, TypeOK, Step
<1>4. TypeOK'
  BY <1>1, <1>2, <1>3 DEF IInv, Inv, TypeOK
<1>5. ChainInv'
  <2> DEFINE new == [r EXCEPT !.step = "putData"]
  <2>1. new.step = "putData" /\ new.user = r.user
    BY <1>1, GoOnType DEF IInv, Inv, TypeOK, Step
  <2>2. requests' = (requests \ {r}) \cup {new}
    BY <1>1 DEF GoOn
  <2>3. \A s \in requests : Registering(s) => s.user # r.user
    BY <1>1 DEF IInv, Inv, ChainInv
  <2>4. inits[r.user] = 0
    BY <1>1, <1>2 DEF IInv, StoredInv
  <2> HIDE DEF new
  <2>5. SUFFICES ASSUME NEW s \in requests', Registering(s)
                 PROVE  /\ s.user \in accounts'
                        /\ s.step = "downloadURL" => s.user \in avatars'
                        /\ inits'[s.user] = 0
                        /\ authUser' \in accounts'
                        /\ \A t \in requests' :
                             Registering(t) /\ t.user = s.user => t = s
    BY DEF ChainInv, Registering
  <2>6. CASE s = new
    BY <1>1, <2>1, <2>2, <2>3, <2>4, <2>6 DEF Registering
  <2>7. CASE s \in requests
    BY <1>1, <2>1, <2>2, <2>3, <2>5, <2>7 DEF IInv, Inv, ChainInv, Registering
  <2>8. QED
    BY <2>2, <2>6, <2>7
<1>6. StoredOnce' /\ StoredInv' /\ DocumentsComplete' /\ MapUserKnown' /\ VisitInv'
  BY <1>1 DEF IInv, Inv, StoredOnce, StoredInv, DocumentsComplete, MapUserKnown,
              VisitInv, OnForm
<1>7. QED
  BY <1>4, <1>5, <1>6 DEF IInv, Inv

LEMMA PutDataKeeps == ASSUME IInv, NEW r \in requests, PutData(r) PROVE IInv'
<1>1. /\ r.step = "putData" /\ avatars' = avatars \cup {r.user}
      /\ GoOn(r, "downloadURL")
      /\ UNCHANGED << accounts, docs, inits, device, disturbed >>
  BY DEF PutData
<1>2. r \in Request /\ r.user \in User
  BY DEF IInv, Inv, TypeOK, Request
<1>3. requests' \in SUBSET Request
  BY <1>1, GoOnType DEF IInv, Inv, TypeOK, Step
<1>4. TypeOK'
  BY <1>1, <1>2, <1>3 DEF IInv, Inv, TypeOK, device
<1>5. ChainInv'
  <2> DEFINE new == [r EXCEPT !.step = "downloadURL"]
  <2>1. new.step = "downloadURL" /\ new.user = r.user
    BY <1>1, GoOnType DEF IInv, Inv, TypeOK, Step
  <2>2. requests' = (requests \ {r}) \cup {new}
    BY <1>1 DEF GoOn
  <2>3. /\ r.user \in accounts /\ inits[r.user] = 0 /\ authUser \in accounts
        /\ \A s \in requests : Registering(s) /\ s.user = r.user => s = r
    BY <1>1 DEF IInv, Inv, ChainInv, Registering
  <2>4. UNCHANGED << accounts, inits, authUser >>
    BY <1>1 DEF device
  <2> HIDE DEF new
  <2>5. SUFFICES ASSUME NEW s \in requests', Registering(s)
                 PROVE  /\ s.user \in accounts
                        /\ s.step = "downloadURL" => s.user \in avatars'
                        /\ inits[s.user] = 0
                        /\ authUser \in accounts
                        /\ \A t \in requests' :
                             Registering(t) /\ t.user = s.user => t = s
    BY <2>4 DEF ChainInv, Registering
  <2>6. CASE s = new
    BY <1>1, <2>1, <2>2, <2>3, <2>6
  <2>7. CASE s \in requests /\ s # r
    BY <1>1, <2>1, <2>2, <2>3, <2>5, <2>7 DEF IInv, Inv, ChainInv
  <2>8. QED
    BY <2>2, <2>6, <2>7
<1>6. StoredOnce' /\ StoredInv' /\ DocumentsComplete' /\ MapUserKnown' /\ VisitInv'
  BY <1>1 DEF IInv, Inv, StoredOnce, StoredInv, DocumentsComplete, MapUserKnown,
              VisitInv, OnForm, device
<1>7. QED
  BY <1>4, <1>5, <1>6 DEF IInv, Inv

LEMMA DownloadURLKeeps == ASSUME IInv, NEW r \in requests, DownloadURL(r) PROVE IInv'
<1>1. /\ r.step = "downloadURL" /\ requests' = requests \ {r}
      /\ defaults' = [names |-> fields[r.visit], email |-> fields[r.visit],
                      uid |-> r.user]
      /\ UNCHANGED << accounts, avatars, visit, fields, authUser, profile >>
  BY DEF DownloadURL, End
<1>2. \/ /\ docs' = [docs EXCEPT ![r.user] = fields[r.visit]]
         /\ inits' = [inits EXCEPT ![r.user] = @ + 1]
         /\ UNCHANGED disturbed
      \/ disturbed' = TRUE /\ UNCHANGED << docs, inits >>
  BY DEF DownloadURL
<1>3. \/ screen' = "tabBar" /\ mapUser' = authUser
      \/ UNCHANGED << screen, mapUser >>
  BY DEF DownloadURL, PresentTabBar
<1>4. r \in Request /\ r.user \in User /\ fields[r.visit] \in User \cup {Blank}
  BY DEF IInv, Inv, TypeOK, Request
<1>5. /\ r.user \in accounts /\ r.user \in avatars /\ inits[r.user] = 0
      /\ authUser \in accounts
      /\ \A s \in requests : Registering(s) /\ s.user = r.user => s = r
  BY <1>1 DEF IInv, Inv, ChainInv, Registering
<1>6. TypeOK'
  <2>1. defaults' \in Stored
    BY <1>1, <1>4 DEF Stored
  <2>2. docs' \in [User -> User \cup {Blank, Nobody}]
    <3>1. docs \in [User -> User \cup {Blank, Nobody}]
      BY DEF IInv, Inv, TypeOK
    <3>2. QED
      BY <1>2, <1>4, <3>1
  <2>3. inits' \in [User -> Nat]
    BY <1>2, <1>4 DEF IInv, Inv, TypeOK
  <2>4. QED
    BY <1>1, <1>2, <1>3, <2>1, <2>2, <2>3 DEF IInv, Inv, TypeOK
<1>7. inits' \in [User -> Nat] /\ \A u \in User : u # r.user => inits'[u] = inits[u]
  BY <1>2, <1>4 DEF IInv, Inv, TypeOK
<1>8. inits'[r.user] <= 1
  BY <1>2, <1>4, <1>5 DEF IInv, Inv, TypeOK
<1>9. ChainInv'
  <2>1. SUFFICES ASSUME NEW s \in requests', Registering(s)
                 PROVE  /\ s.user \in accounts
                        /\ s.step = "downloadURL" => s.user \in avatars
                        /\ inits'[s.user] = 0
                        /\ authUser \in accounts
                        /\ \A t \in requests' :
                             Registering(t) /\ t.user = s.user => t = s
    BY <1>1 DEF ChainInv, Registering
  <2>2. s \in requests /\ s # r /\ s.user # r.user /\ s.user \in User
    BY <1>1, <1>5, <2>1 DEF IInv, Inv, TypeOK, Request
  <2>3. inits'[s.user] = inits[s.user]
    BY <1>7, <2>2
  <2>4. QED
    BY <1>1, <2>1, <2>2, <2>3 DEF IInv, Inv, ChainInv
<1>10. StoredOnce' /\ StoredInv'
  BY <1>1, <1>5, <1>7, <1>8 DEF IInv, Inv, StoredOnce, StoredInv
<1>11. DocumentsComplete'
  BY <1>1, <1>2, <1>4, <1>5 DEF IInv, Inv, TypeOK, DocumentsComplete
<1>12. MapUserKnown' /\ VisitInv'
  BY <1>1, <1>3, <1>5 DEF IInv, Inv, MapUserKnown, VisitInv, OnForm
<1>13. QED
  BY <1>6, <1>9, <1>10, <1>11, <1>12 DEF IInv, Inv

LEMMA SignInKeeps == ASSUME IInv, NEW r \in requests, SignIn(r) PROVE IInv'
<1>1. /\ r.step = "signIn" /\ r.user \in accounts /\ authUser' = r.user
      /\ GoOn(r, "getDocument")
      /\ UNCHANGED << cloud, defaults, visit, fields, profile, disturbed >>
  BY DEF SignIn
<1>2. \/ screen' = "tabBar" /\ mapUser' = r.user
      \/ UNCHANGED << screen, mapUser >>
  BY DEF SignIn, PresentTabBar
<1>3. r \in Request /\ r.user \in User
  BY DEF IInv, Inv, TypeOK, Request
<1>4. requests' \in SUBSET Request /\ [r EXCEPT !.step = "getDocument"].step = "getDocument"
  BY <1>1, GoOnType DEF IInv, Inv, TypeOK, Step
<1>5. TypeOK'
  BY <1>1, <1>2, <1>3, <1>4 DEF IInv, Inv, TypeOK, cloud
<1>6. \A s \in requests' : Registering(s) => s \in requests
  BY <1>1, <1>4 DEF GoOn, Registering
<1>7. ChainInv'
  <2>1. SUFFICES ASSUME NEW s \in requests', Registering(s)
                 PROVE  /\ s.user \in accounts
                        /\ s.step = "downloadURL" => s.user \in avatars
                        /\ inits[s.user] = 0
                        /\ authUser' \in accounts
                        /\ \A t \in requests' :
                             Registering(t) /\ t.user = s.user => t = s
    BY <1>1 DEF ChainInv, Registering, cloud
  <2>2. QED
    BY <1>1, <1>6, <2>1 DEF IInv, Inv, ChainInv
<1>8. StoredOnce' /\ StoredInv' /\ DocumentsComplete' /\ MapUserKnown' /\ VisitInv'
  BY <1>1, <1>2 DEF IInv, Inv, StoredOnce, StoredInv, DocumentsComplete,
                    MapUserKnown, VisitInv, OnForm, cloud
<1>9. QED
  BY <1>5, <1>7, <1>8 DEF IInv, Inv

LEMMA GetDocumentKeeps == ASSUME IInv, NEW r \in requests, GetDocument(r) PROVE IInv'
<1>1. /\ docs[r.user] # Nobody /\ requests' = requests \ {r}
      /\ defaults' = [names |-> docs[r.user], email |-> fields[r.visit], uid |-> r.user]
      /\ UNCHANGED << cloud, screen, visit, fields, mapUser, authUser, profile,
                      disturbed >>
  BY DEF GetDocument, End
<1>2. r \in Request /\ r.user \in User /\ fields[r.visit] \in User \cup {Blank}
  BY DEF IInv, Inv, TypeOK, Request
<1>3. defaults' \in Stored
  BY <1>1, <1>2 DEF IInv, Inv, TypeOK, Stored
<1>4. TypeOK'
  BY <1>1, <1>3 DEF IInv, Inv, TypeOK, cloud
<1>5. ChainInv' /\ StoredOnce' /\ StoredInv'
  BY <1>1, ChainsKeep DEF cloud
<1>6. DocumentsComplete' /\ MapUserKnown' /\ VisitInv'
  BY <1>1 DEF IInv, Inv, DocumentsComplete, MapUserKnown, VisitInv, OnForm, cloud
<1>7. QED
  BY <1>4, <1>5, <1>6 DEF IInv, Inv

LEMMA QuitKeeps == ASSUME IInv, Quit, disturbed' \in BOOLEAN PROVE IInv'
<1>1. /\ screen' = "dead" /\ requests' = {} /\ mapUser' = Nobody
      /\ profile' = NotLoaded /\ fields' = [v \in 1..MaxVisits |-> Blank]
      /\ UNCHANGED << cloud, defaults, visit, authUser >>
  BY DEF Quit
<1>2. TypeOK'
  BY <1>1 DEF IInv, Inv, TypeOK, cloud
<1>3. ChainInv' /\ StoredOnce' /\ StoredInv'
  BY <1>1, ChainsKeep DEF cloud
<1>4. DocumentsComplete' /\ MapUserKnown' /\ VisitInv'
  BY <1>1 DEF IInv, Inv, DocumentsComplete, MapUserKnown, VisitInv, OnForm, cloud
<1>5. QED
  BY <1>2, <1>3, <1>4 DEF IInv, Inv

\* The user's own steps: no chain and nothing in the cloud changes.
LEMMA ScreenKeeps ==
  ASSUME IInv, UNCHANGED << cloud, requests, authUser >>, TypeOK',
         MapUserKnown', VisitInv'
  PROVE  IInv'
<1>1. ChainInv' /\ StoredOnce' /\ StoredInv'
  BY ChainsKeep DEF cloud
<1>2. DocumentsComplete'
  BY DEF IInv, Inv, DocumentsComplete, cloud
<1>3. QED
  BY <1>1, <1>2 DEF IInv, Inv

LEMMA OpenKeeps ==
  ASSUME IInv, NEW kind \in {"registration", "authorization"}, Open(kind)
  PROVE  IInv'
<1>1. /\ visit < MaxVisits /\ visit' = visit + 1 /\ screen' = kind
      /\ UNCHANGED << cloud, defaults, fields, requests, mapUser, authUser, profile,
                      disturbed >>
  BY DEF Open
<1>2. visit \in 0..MaxVisits
  BY DEF IInv, Inv, TypeOK
<1>3. visit' \in 0..MaxVisits /\ visit' # 0
  BY <1>1, <1>2, ConstantsAssumption
<1>4. TypeOK'
  BY <1>1, <1>3 DEF IInv, Inv, TypeOK, cloud
<1>5. MapUserKnown' /\ VisitInv'
  BY <1>1, <1>3 DEF MapUserKnown, VisitInv
<1>6. QED
  BY <1>1, <1>4, <1>5, ScreenKeeps

LEMMA TypeKeeps ==
  ASSUME IInv, NEW content \in User \cup {Blank}, Type(content) PROVE IInv'
<1>1. /\ OnForm /\ fields' = [fields EXCEPT ![visit] = content]
      /\ disturbed' = (disturbed \/ requests # {})
      /\ UNCHANGED << cloud, defaults, screen, visit, requests, mapUser, authUser,
                      profile >>
  BY DEF Type
<1>2. fields' \in [1..MaxVisits -> User \cup {Blank}]
  BY <1>1 DEF IInv, Inv, TypeOK
<1>3. TypeOK'
  BY <1>1, <1>2 DEF IInv, Inv, TypeOK, cloud
<1>4. MapUserKnown' /\ VisitInv'
  BY <1>1 DEF IInv, Inv, MapUserKnown, VisitInv, OnForm, cloud
<1>5. QED
  BY <1>1, <1>3, <1>4, ScreenKeeps

LEMMA HandleKeeps == ASSUME IInv, NEW r \in requests, Handle(r) PROVE IInv'
<1>1. CASE TrapOnDocument(r)
  BY <1>1, QuitKeeps DEF TrapOnDocument
<1>2. QED
  BY <1>1, CreateUserKeeps, PutDataKeeps, DownloadURLKeeps, SignInKeeps,
     GetDocumentKeeps, FailKeeps DEF Handle

LEMMA NextIInv == IInv /\ [Next]_vars => IInv'
<1>1. SUFFICES ASSUME IInv, [Next]_vars PROVE IInv'
  OBVIOUS
<1>2. CASE UNCHANGED vars
  <2>1. UNCHANGED << cloud, defaults, screen, visit, fields, mapUser, authUser,
                     profile, requests, disturbed >>
    BY <1>2 DEF vars, device
  <2>2. TypeOK' /\ MapUserKnown' /\ VisitInv'
    BY <1>1, <2>1 DEF IInv, Inv, TypeOK, MapUserKnown, VisitInv, OnForm, cloud
  <2>3. QED
    BY <1>1, <2>1, <2>2, ScreenKeeps
<1>3. ASSUME NEW kind \in {"registration", "authorization"}, Open(kind) PROVE IInv'
  BY <1>1, <1>3, OpenKeeps
<1>4. CASE Exit
  <2>1. /\ screen' = "welcome"
        /\ UNCHANGED << cloud, defaults, visit, fields, requests, mapUser, authUser,
                        profile, disturbed >>
    BY <1>4 DEF Exit
  <2>2. TypeOK' /\ MapUserKnown' /\ VisitInv'
    BY <1>1, <2>1 DEF IInv, Inv, TypeOK, MapUserKnown, VisitInv, OnForm, cloud
  <2>3. QED
    BY <1>1, <2>1, <2>2, ScreenKeeps
<1>5. ASSUME NEW content \in User \cup {Blank}, Type(content) PROVE IInv'
  BY <1>1, <1>5, TypeKeeps
<1>6. CASE SignUpButton
  BY <1>1, <1>6, SubmitKeeps DEF SignUpButton
<1>7. CASE ButtonInput
  BY <1>1, <1>7, SubmitKeeps DEF ButtonInput
<1>8. ASSUME NEW r \in requests, Handle(r) PROVE IInv'
  BY <1>1, <1>8, HandleKeeps
<1>9. CASE LoadProfile
  <2>1. /\ profile' = defaults /\ disturbed' = (disturbed \/ requests # {})
        /\ UNCHANGED << cloud, defaults, screen, visit, fields, mapUser, authUser,
                        requests >>
    BY <1>9 DEF LoadProfile
  <2>2. TypeOK' /\ MapUserKnown' /\ VisitInv'
    BY <1>1, <2>1 DEF IInv, Inv, TypeOK, MapUserKnown, VisitInv, OnForm, cloud
  <2>3. QED
    BY <1>1, <2>1, <2>2, ScreenKeeps
<1>10. CASE Kill
  <2>1. disturbed' \in BOOLEAN
    BY <1>1, <1>10 DEF Kill, IInv, Inv, TypeOK
  <2>2. QED
    BY <1>1, <1>10, <2>1, QuitKeeps DEF Kill
<1>11. CASE Launch
  <2>1. /\ screen' = "welcome"
        /\ UNCHANGED << cloud, defaults, visit, fields, mapUser, authUser, profile,
                        requests, disturbed >>
    BY <1>11 DEF Launch
  <2>2. TypeOK' /\ MapUserKnown' /\ VisitInv'
    BY <1>1, <2>1 DEF IInv, Inv, TypeOK, MapUserKnown, VisitInv, OnForm, cloud
  <2>3. QED
    BY <1>1, <2>1, <2>2, ScreenKeeps
<1>12. QED
  BY <1>1, <1>2, <1>3, <1>4, <1>5, <1>6, <1>7, <1>8, <1>9, <1>10, <1>11 DEF Next

-----------------------------------------------------------------------------
(* The profile.                                                            *)

OwnData(u) == [names |-> u, email |-> u, uid |-> u]

\* A profile that has loaded stays as long as its tab bar.
ProfileInv == profile # NotLoaded => screen = "tabBar"

\* Undisturbed, one chain is open at a time and finds the text fields as they
\* were submitted; whoever it has signed in is the user of the map screen, if it
\* has come up.  When no chain is open, the defaults are that user's.
UndisturbedInv ==
  ~disturbed =>
    /\ \A r \in requests :
         /\ requests = {r}
         /\ fields[r.visit] = r.user
         /\ r.step \notin {"createUser", "signIn"} => authUser = r.user
         /\ screen = "tabBar" => mapUser = r.user
    /\ \A u \in User : docs[u] \in {u, Nobody}
    /\ screen = "tabBar" /\ requests = {} => defaults = OwnData(mapUser)
    /\ profile # NotLoaded => profile = OwnData(mapUser)

OwnIInv == IInv /\ ProfileInv /\ UndisturbedInv

LEMMA InitOwn == Init => OwnIInv
<1>1. Init => ProfileInv /\ UndisturbedInv
  BY DEF Init, ProfileInv, UndisturbedInv
<1>2. QED
  BY <1>1, InitIInv DEF OwnIInv

\* The first call of a chain.
LEMMA SubmitOwn ==
  ASSUME OwnIInv, NEW kind \in {"registration", "authorization"},
         NEW step \in {"createUser", "signIn"}, Submit(kind, step)
  PROVE  ProfileInv' /\ UndisturbedInv'
<1>1. PICK n \in 1..MaxRequests :
        requests' = requests \cup
          {[slot |-> n, visit |-> visit, user |-> fields[visit], step |-> step]}
  BY DEF Submit
<1>2. /\ screen = kind /\ disturbed' = (disturbed \/ requests # {})
      /\ UNCHANGED << accounts, avatars, docs, inits >>
      /\ UNCHANGED << defaults, screen, visit, fields, mapUser, authUser, profile >>
  BY DEF Submit, cloud, device
<1>3. ProfileInv' /\ profile = NotLoaded
  BY <1>2 DEF OwnIInv, ProfileInv
<1>4. UndisturbedInv'
  <2>1. SUFFICES ASSUME ~disturbed, requests = {} PROVE UndisturbedInv'
    BY <1>2 DEF UndisturbedInv
  <2> DEFINE new == [slot |-> n, visit |-> visit, user |-> fields[visit], step |-> step]
  <2>2. requests' = {new}
    BY <1>1, <2>1
  <2>3. new.visit = visit /\ new.user = fields[visit] /\ new.step = step
    OBVIOUS
  <2> HIDE DEF new
  <2>4. QED
    BY <1>2, <1>3, <2>1, <2>2, <2>3 DEF OwnIInv, UndisturbedInv
<1>5. QED
  BY <1>3, <1>4

\* A chain that goes on without a word to the screens.
LEMMA GoOnOwn ==
  ASSUME OwnIInv, NEW r \in requests, NEW step \in {"putData", "downloadURL"},
         GoOn(r, step), authUser' = r.user,
         UNCHANGED << docs, defaults, screen, fields, mapUser, profile, disturbed >>
  PROVE  ProfileInv' /\ UndisturbedInv'
<1>1. ProfileInv'
  BY DEF OwnIInv, ProfileInv
<1>2. UndisturbedInv'
  <2>1. SUFFICES ASSUME ~disturbed PROVE UndisturbedInv'
    BY DEF UndisturbedInv
  <2>2. r \in Request
    BY DEF OwnIInv, IInv, Inv, TypeOK
  <2> DEFINE new == [r EXCEPT !.step = step]
  <2>3. new.visit = r.visit /\ new.user = r.user
    BY <2>2 DEF Request
  <2>4. requests' = {new}
    BY <2>1 DEF GoOn, OwnIInv, UndisturbedInv
  <2> HIDE DEF new
  <2>5. QED
    BY <2>1, <2>3, <2>4 DEF OwnIInv, UndisturbedInv
<1>3. QED
  BY <1>1, <1>2

LEMMA CreateUserOwn ==
  ASSUME OwnIInv, NEW r \in requests, CreateUser(r) PROVE ProfileInv' /\ UndisturbedInv'
BY GoOnOwn DEF CreateUser

LEMMA PutDataOwn ==
  ASSUME OwnIInv, NEW r \in requests, PutData(r) PROVE ProfileInv' /\ UndisturbedInv'
<1>1. /\ r.step = "putData" /\ GoOn(r, "downloadURL")
      /\ UNCHANGED << docs, defaults, screen, fields, mapUser, authUser, profile, disturbed >>
  BY DEF PutData, device
<1>2. CASE disturbed
  BY <1>1, <1>2 DEF OwnIInv, ProfileInv, UndisturbedInv
<1>3. CASE ~disturbed
  <2>1. authUser' = r.user
    BY <1>1, <1>3 DEF OwnIInv, UndisturbedInv
  <2>2. QED
    BY <1>1, <2>1, GoOnOwn
<1>4. QED
  BY <1>2, <1>3

\* The last handler of a registration.
LEMMA DownloadURLOwn ==
  ASSUME OwnIInv, NEW r \in requests, DownloadURL(r) PROVE ProfileInv' /\ UndisturbedInv'
<1>1. /\ r.step = "downloadURL" /\ requests' = requests \ {r}
      /\ \/ docs' = [docs EXCEPT ![r.user] = fields[r.visit]] /\ UNCHANGED disturbed
         \/ disturbed' = TRUE
      /\ defaults' = [names |-> fields[r.visit], email |-> fields[r.visit], uid |-> r.user]
      /\ UNCHANGED << fields, authUser, profile >>
  BY DEF DownloadURL, End
<1>2. IF OnForm /\ visit = r.visit
      THEN screen' = "tabBar" /\ mapUser' = authUser
      ELSE UNCHANGED << screen, mapUser >>
  BY DEF DownloadURL, PresentTabBar
<1>3. ProfileInv'
  BY <1>1, <1>2 DEF OwnIInv, ProfileInv
<1>4. UndisturbedInv'
  <2>1. SUFFICES ASSUME ~disturbed, docs' = [docs EXCEPT ![r.user] = fields[r.visit]]
                 PROVE  UndisturbedInv'
    BY <1>1 DEF UndisturbedInv
  <2>2. /\ requests = {r} /\ fields[r.visit] = r.user /\ authUser = r.user
        /\ screen = "tabBar" => mapUser = r.user
    BY <1>1, <2>1 DEF OwnIInv, UndisturbedInv
  <2>3. requests' = {} /\ defaults' = OwnData(r.user)
    BY <1>1, <2>2 DEF OwnData
  <2>4. \A u \in User : docs'[u] \in {u, Nobody}
    BY <2>1, <2>2 DEF OwnIInv, UndisturbedInv, IInv, Inv, TypeOK
  <2>5. screen' = "tabBar" => mapUser' = r.user
    BY <1>2, <2>2
  <2>6. profile # NotLoaded => mapUser' = mapUser
    BY <1>2 DEF OwnIInv, ProfileInv, OnForm
  <2>7. profile' # NotLoaded => profile' = OwnData(mapUser')
    BY <1>1, <2>1, <2>6 DEF OwnIInv, UndisturbedInv
  <2>8. QED
    BY <2>3, <2>4, <2>5, <2>7 DEF UndisturbedInv, OwnData
<1>5. QED
  BY <1>3, <1>4

\* A login shows the tab bar before it has the user's data.
LEMMA SignInOwn ==
  ASSUME OwnIInv, NEW r \in requests, SignIn(r) PROVE ProfileInv' /\ UndisturbedInv'
<1>1. /\ r.step = "signIn" /\ authUser' = r.user /\ GoOn(r, "getDocument")
      /\ UNCHANGED << docs, defaults, fields, profile, disturbed >>
  BY DEF SignIn, cloud
<1>2. IF OnForm /\ visit = r.visit
      THEN screen' = "tabBar" /\ mapUser' = r.user
      ELSE UNCHANGED << screen, mapUser >>
  BY DEF SignIn, PresentTabBar
<1>3. ProfileInv'
  BY <1>1, <1>2 DEF OwnIInv, ProfileInv
<1>4. UndisturbedInv'
  <2>1. SUFFICES ASSUME ~disturbed PROVE UndisturbedInv'
    BY <1>1 DEF UndisturbedInv
  <2>2. r \in Request
    BY DEF OwnIInv, IInv, Inv, TypeOK
  <2> DEFINE new == [r EXCEPT !.step = "getDocument"]
  <2>3. new.visit = r.visit /\ new.user = r.user
    BY <2>2 DEF Request
  <2>4. /\ requests = {r} /\ fields[r.visit] = r.user
        /\ screen = "tabBar" => mapUser = r.user
    BY <2>1 DEF OwnIInv, UndisturbedInv
  <2>5. requests' = {new}
    BY <1>1, <2>4 DEF GoOn
  <2> HIDE DEF new
  <2>6. profile # NotLoaded => mapUser' = mapUser
    BY <1>2 DEF OwnIInv, ProfileInv, OnForm
  <2>7. profile' # NotLoaded => profile' = OwnData(mapUser')
    BY <1>1, <2>1, <2>6 DEF OwnIInv, UndisturbedInv
  <2>8. screen' = "tabBar" => mapUser' = r.user
    BY <1>2, <2>4
  <2>9. QED
    BY <1>1, <2>1, <2>3, <2>4, <2>5, <2>7, <2>8 DEF OwnIInv, UndisturbedInv
<1>5. QED
  BY <1>3, <1>4

\* The last handler of a login.
LEMMA GetDocumentOwn ==
  ASSUME OwnIInv, NEW r \in requests, GetDocument(r) PROVE ProfileInv' /\ UndisturbedInv'
<1>1. /\ docs[r.user] # Nobody /\ requests' = requests \ {r}
      /\ defaults' = [names |-> docs[r.user], email |-> fields[r.visit], uid |-> r.user]
      /\ UNCHANGED << docs, screen, fields, mapUser, authUser, profile, disturbed >>
  BY DEF GetDocument, End, cloud
<1>2. ProfileInv'
  BY <1>1 DEF OwnIInv, ProfileInv
<1>3. UndisturbedInv'
  <2>1. SUFFICES ASSUME ~disturbed PROVE UndisturbedInv'
    BY <1>1 DEF UndisturbedInv
  <2>2. /\ requests = {r} /\ fields[r.visit] = r.user
        /\ screen = "tabBar" => mapUser = r.user
    BY <2>1 DEF OwnIInv, UndisturbedInv
  <2>3. r.user \in User
    BY DEF OwnIInv, IInv, Inv, TypeOK, Request
  <2>4. docs[r.user] = r.user
    BY <1>1, <2>1, <2>3 DEF OwnIInv, UndisturbedInv
  <2>5. requests' = {} /\ defaults' = OwnData(r.user)
    BY <1>1, <2>2, <2>4 DEF OwnData
  <2>6. QED
    BY <1>1, <2>1, <2>2, <2>5 DEF OwnIInv, UndisturbedInv, OwnData
<1>4. QED
  BY <1>2, <1>3

LEMMA QuitOwn ==
  ASSUME OwnIInv, Quit, disturbed' = disturbed \/ disturbed' = TRUE
  PROVE  ProfileInv' /\ UndisturbedInv'
<1>1. screen' = "dead" /\ requests' = {} /\ profile' = NotLoaded /\ docs' = docs
  BY DEF Quit, cloud
<1>2. QED
  BY <1>1 DEF OwnIInv, ProfileInv, UndisturbedInv

\* The user moves on, no screen but the tab bar being shown with a user.
LEMMA ScreenOwn ==
  ASSUME OwnIInv, screen' # "tabBar", screen # "tabBar",
         UNCHANGED << docs, fields, mapUser, authUser, profile, requests, disturbed >>
  PROVE  ProfileInv' /\ UndisturbedInv'
BY DEF OwnIInv, ProfileInv, UndisturbedInv

LEMMA NextOwn == OwnIInv /\ [Next]_vars => OwnIInv'
<1> SUFFICES ASSUME OwnIInv, [Next]_vars PROVE OwnIInv'
  OBVIOUS
<1>1. SUFFICES ProfileInv' /\ UndisturbedInv'
  BY NextIInv DEF OwnIInv
<1>2. CASE UNCHANGED vars
  <2>1. UNCHANGED << docs, defaults, screen, visit, fields, mapUser, authUser, profile,
                     requests, disturbed >>
    BY <1>2 DEF vars, cloud, device
  <2>2. QED
    BY <2>1 DEF OwnIInv, ProfileInv, UndisturbedInv, OwnData
<1>3. ASSUME NEW kind \in {"registration", "authorization"}, Open(kind)
      PROVE  ProfileInv' /\ UndisturbedInv'
  BY <1>3, ScreenOwn DEF Open, cloud
<1>4. CASE Exit
  BY <1>4, ScreenOwn DEF Exit, OnForm, cloud
<1>5. ASSUME NEW content \in User \cup {Blank}, Type(content)
      PROVE  ProfileInv' /\ UndisturbedInv'
  <2>1. /\ OnForm /\ disturbed' = (disturbed \/ requests # {})
        /\ UNCHANGED << docs, defaults, screen, requests, mapUser, profile >>
    BY <1>5 DEF Type, cloud
  <2>2. QED
    BY <2>1 DEF OwnIInv, ProfileInv, UndisturbedInv, OwnData
<1>6. CASE SignUpButton \/ ButtonInput
  BY <1>6, SubmitOwn DEF SignUpButton, ButtonInput
<1>7. ASSUME NEW r \in requests, Handle(r) PROVE ProfileInv' /\ UndisturbedInv'
  <2>1. CASE Fail(r)
    <3>1. disturbed' = TRUE /\ UNCHANGED << screen, profile >>
      BY <2>1 DEF Fail, device
    <3>2. QED
      BY <3>1 DEF OwnIInv, ProfileInv, UndisturbedInv
  <2>2. CASE TrapOnDocument(r)
    BY <2>2, QuitOwn DEF TrapOnDocument
  <2>3. QED
    BY <1>7, <2>1, <2>2, CreateUserOwn, PutDataOwn, DownloadURLOwn, SignInOwn,
       GetDocumentOwn DEF Handle
<1>8. CASE LoadProfile
  <2>1. /\ screen = "tabBar" /\ profile' = defaults
        /\ disturbed' = (disturbed \/ requests # {})
        /\ UNCHANGED << docs, defaults, screen, mapUser, requests >>
    BY <1>8 DEF LoadProfile, cloud
  <2>2. QED
    BY <2>1 DEF OwnIInv, ProfileInv, UndisturbedInv, OwnData
<1>9. CASE Kill
  BY <1>9, QuitOwn DEF Kill
<1>10. CASE Launch
  BY <1>10, ScreenOwn DEF Launch, cloud
<1>11. QED
  BY <1>2, <1>3, <1>4, <1>5, <1>6, <1>7, <1>8, <1>9, <1>10 DEF Next

-----------------------------------------------------------------------------
\* The strengthened invariant holds in every reachable state.
THEOREM Invariant == Spec => []IInv
<1>1. QED
  BY InitIInv, NextIInv, PTL DEF Spec

\* The variables keep their types.
THEOREM TypeCorrect == Spec => []TypeOK
<1>1. IInv => TypeOK
  BY DEF IInv, Inv
<1>2. QED
  BY <1>1, Invariant, PTL

\* No interleaving of registrations, logins, exits, failures and kills has
\* initUser store the document of a user, and with it a rating of 0, twice.
THEOREM DocumentStoredOnce == Spec => []StoredOnce
<1>1. IInv => StoredOnce
  BY DEF IInv, Inv
<1>2. QED
  BY <1>1, Invariant, PTL

\* Wherever a registration stops, a document never lacks its account or avatar.
THEOREM DocumentsAreComplete == Spec => []DocumentsComplete
<1>1. IInv => DocumentsComplete
  BY DEF IInv, Inv
<1>2. QED
  BY <1>1, Invariant, PTL

\* The map screen never comes up without a user who has an account, whichever
\* handler presents it.
THEOREM MapUserIsKnown == Spec => []MapUserKnown
<1>1. IInv => MapUserKnown
  BY DEF IInv, Inv
<1>2. QED
  BY <1>1, Invariant, PTL

\* Neither the order of registrations and logins nor kills and relaunches ever
\* have the profile show somebody else than the map screen's user, unless a
\* chain was disturbed.
THEOREM ProfileIsOwn == Spec => []ProfileOwnUndisturbed
<1>1. OwnIInv => ProfileOwnUndisturbed
  BY DEF OwnIInv, UndisturbedInv, ProfileOwnUndisturbed, OwnData
<1>2. QED
  BY <1>1, InitOwn, NextOwn, PTL DEF Spec
=============================================================================

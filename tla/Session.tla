------------------------------ MODULE Session ------------------------------
(***************************************************************************)
(* Who uses a device: sign-up, sign-in by mail and by Facebook, the start  *)
(* of the app, and sign-out.                                               *)
(*     Controllers/AuthController.swift                                    *)
(*     Views/LoginFlow/LoginViewController.swift                           *)
(*     External/FirebaseController.swift   writeUser                       *)
(*     Controllers/CacheController.swift   readUserInfo .. clearUserInfo   *)
(*                                                                         *)
(* A login takes two answers: Firebase authenticates the account, then the *)
(* server takes the record of the user.  Only then is the user cached, and *)
(* the cache is what the app goes by, at its next start too.  Nothing on   *)
(* the login screen is disabled meanwhile.                                 *)
(***************************************************************************)
EXTENDS Naturals, Sequences, FiniteSets

CONSTANTS
    Accounts,       \* the ids Firebase gives to users
    NoAccount,
    Kinds,          \* the ways to log in that are offered: see AllKinds
    MaxTaps,        \* bound: the login attempts of a behaviour
    MaxPending,     \* bound: the attempts under way at once
    AuthMayFail,    \* whether Firebase may refuse to authenticate
    WritesMayFail   \* whether Firebase may refuse the user record

AllKinds == {"mail", "signUp", "facebook"}

ASSUME SessionAssumption ==
    /\ NoAccount \notin Accounts
    /\ Kinds \subseteq AllKinds
    /\ MaxTaps \in Nat
    /\ MaxPending \in Nat \ {0}
    /\ AuthMayFail \in BOOLEAN
    /\ WritesMayFail \in BOOLEAN

VARIABLES
    front,           \* the screens in front
    currentUserType, \* of the newest LoginViewController
    authenticating,  \* the attempts Firebase has not authenticated yet
    recording,       \* the attempts whose user record is on its way, in order
    authUser,        \* Auth.auth().currentUser, which survives the process
    facebookToken,   \* the account of FBSDKAccessToken.current()
    cached,          \* the UserInfo in UserDefaults
    recorded,        \* users/<id>/type in the database
    taps             \* attempts so far

vars == << front, currentUserType, authenticating, recording, authUser,
           facebookToken, cached, recorded, taps >>
pending == << authenticating, recording >>

UserTypes == {"consumer", "vendor"}
Screens == {"launch", "login"} \cup UserTypes
User == [id : Accounts, type : UserTypes]
NoUser == [id |-> NoAccount, type |-> "consumer"]

\* One run of signUp or signIn: what its closures have captured, whether its
\* login screen is still the newest, and whether the server has its record.
Attempt == [tap : 1..MaxTaps, kind : Kinds, id : Accounts, type : UserTypes,
            current : BOOLEAN, taken : BOOLEAN]

Init ==
    /\ front = "launch"
    /\ currentUserType = "consumer"
    /\ authenticating = {}
    /\ recording = << >>
    /\ authUser = NoAccount
    /\ facebookToken = NoAccount
    /\ cached = NoUser
    /\ recorded = [a \in Accounts |-> "none"]
    /\ taps = 0

-----------------------------------------------------------------------------
\* Wrong version: a cached vendor is led nowhere.
ConfigureForConsumers ==
    /\ front = "launch"
    /\ front' = IF cached.id = NoAccount THEN "login"
                ELSE IF cached.type = "consumer" THEN "consumer" ELSE "launch"
    /\ UNCHANGED << currentUserType, pending, authUser, facebookToken, cached, recorded, taps >>

\* configureOnLaunch, half a second after viewDidLoad.
ConfigureOnLaunch ==
    /\ front = "launch"
    /\ front' = IF cached.id # NoAccount THEN cached.type ELSE "login"
    /\ UNCHANGED << currentUserType, pending, authUser, facebookToken, cached, recorded, taps >>

\* userTypeSegmentDidChange, at any time while the login screen is in front.
ChangeUserType(type) ==
    /\ front = "login"
    /\ currentUserType # type
    /\ currentUserType' = type
    /\ UNCHANGED << front, pending, authUser, facebookToken, cached, recorded, taps >>

\* signUp or one of the two signIn is called.
Call(kind, account) ==
    /\ front = "login"
    /\ taps < MaxTaps
    /\ Cardinality(authenticating) + Len(recording) < MaxPending
    /\ taps' = taps + 1
    /\ authenticating' = authenticating \cup
           {[tap |-> taps + 1, kind |-> kind, id |-> account, type |-> currentUserType,
             current |-> TRUE, taken |-> FALSE]}
    /\ UNCHANGED << front, currentUserType, recording, authUser, cached, recorded >>

\* loginButtonDidTap and registerButtonDidTap
Tap(kind, account) ==
    /\ kind \in Kinds \ {"facebook"}
    /\ Call(kind, account)
    /\ UNCHANGED facebookToken

\* loginButton(_:didCompleteWith:error:).  With a token the button reads "Log out".
FacebookLogin(account) ==
    /\ "facebook" \in Kinds
    /\ facebookToken = NoAccount
    /\ Call("facebook", account)
    /\ facebookToken' = account

\* Memory is gone and with it every callback; what was stored stays.  The login
\* screen is the first one again.
ProcessEnds ==
    /\ front' = "launch"
    /\ currentUserType' = "consumer"
    /\ authenticating' = {}
    /\ recording' = << >>
    /\ UNCHANGED << authUser, cached, recorded, taps >>

\* The same delegate method after the dialog was cancelled or failed: the token is
\* read before the error is looked at, and there is none.
FacebookCancelled ==
    /\ front = "login"
    /\ "facebook" \in Kinds
    /\ facebookToken = NoAccount
    /\ ProcessEnds
    /\ UNCHANGED facebookToken

\* Wrong version: signOut leaves the user in the cache.
SignedOutButCached == authUser' = NoAccount /\ UNCHANGED cached

\* signOut
SignedOut == authUser' = NoAccount /\ cached' = NoUser

\* loginButtonDidLogOut
FacebookLogout ==
    /\ front = "login"
    /\ facebookToken # NoAccount
    /\ facebookToken' = NoAccount
    /\ SignedOut
    /\ UNCHANGED << front, currentUserType, pending, recorded, taps >>

-----------------------------------------------------------------------------
\* Firebase has authenticated the account; writeUser sends the record.
Authenticated(attempt) ==
    /\ attempt \in authenticating
    /\ authUser' = attempt.id
    /\ authenticating' = authenticating \ {attempt}
    /\ recording' = Append(recording, attempt)
    /\ UNCHANGED << front, currentUserType, facebookToken, cached, recorded, taps >>

\* Firebase refuses.  writeUser is called all the same, for a user with an empty
\* id; Firebase takes no empty path and raises.
NotAuthenticated(attempt) ==
    /\ AuthMayFail
    /\ attempt \in authenticating
    /\ ProcessEnds
    /\ UNCHANGED facebookToken

\* The server takes the oldest record of this device.
RecordTaken ==
    /\ recording # << >>
    /\ ~Head(recording).taken
    /\ recorded' = [recorded EXCEPT ![Head(recording).id] = Head(recording).type]
    /\ recording' = [recording EXCEPT ![1].taken = TRUE]
    /\ UNCHANGED << front, currentUserType, authenticating, authUser,
                    facebookToken, cached, taps >>

\* Wrong version: the screens are those of the segment as it is now.
ShownTypeByScreen(attempt) == currentUserType

\* Whose screens a login leads to: only the sign-in by mail goes by the user.
ShownType(attempt) == IF attempt.kind = "mail" THEN attempt.type ELSE currentUserType

\* The completion given by the login screen.  A screen that is behind another one
\* performs no segue.
Complete(attempt) ==
    /\ recording' = Tail(recording)
    /\ currentUserType' = IF attempt.current THEN ShownType(attempt) ELSE currentUserType
    /\ front' = IF attempt.current /\ front = "login" THEN ShownType(attempt) ELSE front
    /\ UNCHANGED << authenticating, authUser, facebookToken, recorded, taps >>

\* Wrong version: the user is cached whatever became of the record.
RefusedButCached ==
    /\ WritesMayFail
    /\ recording # << >>
    /\ ~Head(recording).taken
    /\ cached' = [id |-> Head(recording).id, type |-> Head(recording).type]
    /\ Complete(Head(recording))

\* The completion block of updateChildValues, with the record saved ...
RecordSaved ==
    /\ recording # << >>
    /\ Head(recording).taken
    /\ cached' = [id |-> Head(recording).id, type |-> Head(recording).type]
    /\ Complete(Head(recording))

\* ... or refused: the login goes on and nobody is cached.
RecordRefused ==
    /\ WritesMayFail
    /\ recording # << >>
    /\ ~Head(recording).taken
    /\ UNCHANGED cached
    /\ Complete(Head(recording))

-----------------------------------------------------------------------------
\* The next LoginViewController: those before it stay behind the other screens.
NewLoginScreen ==
    /\ front' = "launch"
    /\ currentUserType' = "consumer"
    /\ authenticating' = {[attempt EXCEPT !.current = FALSE] : attempt \in authenticating}
    /\ recording' = [n \in DOMAIN recording |-> [recording[n] EXCEPT !.current = FALSE]]
    /\ UNCHANGED << facebookToken, recorded, taps >>

\* signOutButtonItemDidTap, on the consumer's Browse screen.
SignOut ==
    /\ front = "consumer"
    /\ SignedOut
    /\ NewLoginScreen

\* The same when Firebase's signOut throws: the login screen comes all the same.
SignOutThrows ==
    /\ front = "consumer"
    /\ NewLoginScreen
    /\ UNCHANGED << authUser, cached >>

\* The process ends, with or without applicationWillTerminate, which logs out of
\* Facebook only.
Terminate ==
    /\ ProcessEnds
    /\ facebookToken' \in {facebookToken, NoAccount}

Next ==
    \/ ConfigureOnLaunch
    \/ \E type \in UserTypes : ChangeUserType(type)
    \/ \E account \in Accounts :
          \/ \E kind \in Kinds : Tap(kind, account)
          \/ FacebookLogin(account)
    \/ FacebookCancelled
    \/ FacebookLogout
    \/ \E attempt \in authenticating : Authenticated(attempt) \/ NotAuthenticated(attempt)
    \/ RecordTaken
    \/ RecordSaved
    \/ RecordRefused
    \/ SignOut
    \/ SignOutThrows
    \/ Terminate

Spec == Init /\ [][Next]_vars

\* Firebase answers every call, and the launch timer fires.
Fairness ==
    /\ WF_vars(\E attempt \in authenticating :
                  Authenticated(attempt) \/ NotAuthenticated(attempt))
    /\ WF_vars(RecordTaken \/ RecordSaved \/ RecordRefused)
    /\ WF_vars(ConfigureOnLaunch)

FairSpec == Spec /\ Fairness

-----------------------------------------------------------------------------
TypeOK ==
    /\ front \in Screens
    /\ currentUserType \in UserTypes
    /\ authenticating \subseteq Attempt
    /\ recording \in Seq(Attempt)
    /\ authUser \in Accounts \cup {NoAccount}
    /\ facebookToken \in Accounts \cup {NoAccount}
    /\ cached \in User \cup {NoUser}
    /\ recorded \in [Accounts -> UserTypes \cup {"none"}]
    /\ taps \in 0..MaxTaps

IsCached == cached.id # NoAccount

\* Whatever overlaps, is refused or dies: who is cached has a record in the
\* database, so a vendor's or a consumer's lists have an owner.
CachedWasRecorded == IsCached => recorded[cached.id] # "none"

\* As long as logins do not overlap, the cached user is the one Firebase has
\* signed in, over sign-outs, crashes and restarts.
CachedIsSignedIn == IsCached => cached.id = authUser

\* The cache and the database agree on what kind of user this is.
CachedTypeIsRecorded == IsCached => recorded[cached.id] = cached.type

\* The screens in front are those of the cached user, the same that the next
\* start of the app will show.
ScreensFitUser == front \in UserTypes /\ IsCached => front = cached.type

\* While no record is refused, somebody is cached behind every consumer or vendor
\* screen, so that orders get an owner.
SomebodyIsCached == front \in UserTypes => IsCached

\* Every login comes to an end, and the app leaves its launch screen.
LoginsEnd == []<>(authenticating = {} /\ recording = << >> /\ front # "launch")
=============================================================================

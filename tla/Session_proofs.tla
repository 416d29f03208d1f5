---------------------------- MODULE Session_proofs ----------------------------
(***************************************************************************)
(* The invariants of Session.  Part 1 holds for every way to log in and    *)
(* however attempts overlap and fail; part 2 as long as logins are by      *)
(* mail, one after the other, with no user record refused.                 *)
(***************************************************************************)
EXTENDS MCSession, SequenceTheorems, FiniteSetTheorems, TLAPS

-----------------------------------------------------------------------------
(***************************************************************************)
(* Part 1.  A user is cached by the answer to a record the server has      *)
(* taken, and no record is ever removed.                                   *)
(***************************************************************************)
TakenIsRecorded ==
    \A n \in DOMAIN recording : recording[n].taken => recorded[recording[n].id] # "none"

NothingTakenYet == \A attempt \in authenticating : ~attempt.taken

SessionInv == TypeOK /\ CachedWasRecorded /\ TakenIsRecorded /\ NothingTakenYet

\* The end of the process forgets the attempts and nothing else.
LEMMA ProcessEndsKeepsInv ==
    ASSUME SessionInv, ProcessEnds, facebookToken' \in Accounts \cup {NoAccount}
    PROVE  SessionInv'
<1> USE DEF SessionInv, ProcessEnds
<1>1. << >> \in Seq(Attempt)' /\ Len(<< >>) = 0
  BY EmptySeq
<1>2. DOMAIN << >> = {}
  BY EmptySeq
<1>3. TypeOK'
  BY <1>1 DEF TypeOK, Screens, UserTypes
<1>4. CachedWasRecorded'
  BY DEF CachedWasRecorded, IsCached
<1>5. TakenIsRecorded' /\ NothingTakenYet'
  BY <1>2 DEF TakenIsRecorded, NothingTakenYet
<1> QED BY <1>3, <1>4, <1>5

\* A step that touches the fields of the login screen only.
LEMMA ScreenStepKeepsInv ==
    ASSUME SessionInv, UNCHANGED << pending, recorded >>,
           front' \in Screens, currentUserType' \in UserTypes,
           authUser' \in Accounts \cup {NoAccount},
           facebookToken' \in Accounts \cup {NoAccount},
           cached' = cached \/ cached' = NoUser,
           taps' = taps
    PROVE  SessionInv'
<1> USE DEF SessionInv, pending
<1>1. TypeOK'
  BY DEF TypeOK
<1>2. CachedWasRecorded'
  BY DEF CachedWasRecorded, IsCached, NoUser
<1>3. TakenIsRecorded' /\ NothingTakenYet'
  BY DEF TakenIsRecorded, NothingTakenYet
<1> QED BY <1>1, <1>2, <1>3

LEMMA CachedAccount ==
    ASSUME TypeOK, IsCached
    PROVE  cached.id \in Accounts /\ cached.type \in UserTypes
<1> QED BY DEF TypeOK, IsCached, User, NoUser

\* signUp or signIn is called.
LEMMA CallKeepsInv ==
    ASSUME SessionInv, NEW kind \in Kinds, NEW account \in Accounts, Call(kind, account),
           facebookToken' \in Accounts \cup {NoAccount}
    PROVE  SessionInv'
<1> DEFINE new == [tap |-> taps + 1, kind |-> kind, id |-> account,
                   type |-> currentUserType, current |-> TRUE, taken |-> FALSE]
<1> USE DEF SessionInv, Call
<1>1. taps \in Nat /\ MaxTaps \in Nat /\ taps' \in 1..MaxTaps
  BY SessionAssumption DEF TypeOK
<1>2. new \in Attempt
  BY <1>1 DEF Attempt, TypeOK
<1>3. authenticating' = authenticating \cup {new} /\ ~new.taken
  OBVIOUS
<1>4. TypeOK'
  <2>1. authenticating' \subseteq Attempt
    BY <1>2, <1>3, Zenon DEF TypeOK
  <2>2. taps' \in 0..MaxTaps
    BY <1>1
  <2> HIDE DEF new
  <2> QED BY <2>1, <2>2 DEF TypeOK
<1>5. CachedWasRecorded' /\ TakenIsRecorded'
  BY DEF CachedWasRecorded, IsCached, TakenIsRecorded
<1>6. NothingTakenYet'
  BY <1>3, Zenon DEF NothingTakenYet
<1> QED BY <1>4, <1>5, <1>6

\* Firebase has authenticated an attempt.
LEMMA AuthenticatedKeepsInv ==
    ASSUME SessionInv, NEW attempt \in authenticating, Authenticated(attempt)
    PROVE  SessionInv'
<1> USE DEF SessionInv, Authenticated
<1>1. attempt \in Attempt /\ attempt.id \in Accounts /\ ~attempt.taken
  BY DEF TypeOK, Attempt, NothingTakenYet
<1>2. recording \in Seq(Attempt)
  BY DEF TypeOK
<1>3. /\ recording' \in Seq(Attempt)
      /\ Len(recording') = Len(recording) + 1
      /\ \A n \in 1..Len(recording) : recording'[n] = recording[n]
      /\ recording'[Len(recording) + 1] = attempt
  BY <1>1, <1>2, AppendProperties
<1>4. /\ Len(recording) \in Nat /\ DOMAIN recording = 1..Len(recording)
      /\ DOMAIN recording' = 1..(Len(recording) + 1)
  BY <1>2, <1>3, LenProperties
<1>5. TypeOK'
  BY <1>1, <1>3 DEF TypeOK
<1>6. CachedWasRecorded' /\ NothingTakenYet'
  BY DEF CachedWasRecorded, IsCached, NothingTakenYet
<1>7. TakenIsRecorded'
  <2>1. SUFFICES ASSUME NEW n \in DOMAIN recording', recording'[n].taken
                 PROVE  recorded'[recording'[n].id] # "none"
    BY DEF TakenIsRecorded
  <2>2. n # Len(recording) + 1
    BY <1>1, <1>3, <2>1
  <2>3. n \in DOMAIN recording /\ recording'[n] = recording[n]
    BY <1>3, <1>4, <2>1, <2>2
  <2> QED BY <2>1, <2>3 DEF TakenIsRecorded
<1> QED BY <1>5, <1>6, <1>7

\* The first of the records that are on their way.
LEMMA FirstRecord ==
    ASSUME TypeOK, recording # << >>
    PROVE  /\ Head(recording) = recording[1]
           /\ Head(recording) \in Attempt
           /\ Head(recording).id \in Accounts /\ Head(recording).type \in UserTypes
           /\ DOMAIN recording = 1..Len(recording)
           /\ Len(recording) \in Nat \ {0}
<1>1. recording \in Seq(Attempt)
  BY DEF TypeOK
<1>2. Len(recording) \in Nat \ {0} /\ DOMAIN recording = 1..Len(recording)
  BY <1>1, EmptySeq, LenProperties
<1>3. Head(recording) = recording[1] /\ Head(recording) \in Attempt
  BY <1>1, HeadTailProperties
<1> QED BY <1>2, <1>3 DEF Attempt

\* A record that is taken stays what it is otherwise.
LEMMA TakenFirst ==
    ASSUME NEW s \in Seq(Attempt), s # << >>
    PROVE  LET t == [s EXCEPT ![1].taken = TRUE]
           IN  /\ t \in Seq(Attempt)
               /\ Len(t) = Len(s)
               /\ \A n \in 1..Len(s) : /\ t[n].id = s[n].id
                                       /\ t[n].kind = s[n].kind
                                       /\ t[n].type = s[n].type
                                       /\ n # 1 => t[n] = s[n]
<1> DEFINE taken == [s[1] EXCEPT !.taken = TRUE]
<1>1. 1 \in 1..Len(s)
  BY EmptySeq, LenProperties
<1>2. s[1] \in Attempt
  BY <1>1, ElementOfSeq
<1>3. /\ taken \in Attempt
      /\ taken.id = s[1].id /\ taken.kind = s[1].kind /\ taken.type = s[1].type
  BY <1>2 DEF Attempt
<1> HIDE DEF taken
<1>4. /\ [s EXCEPT ![1] = taken] \in Seq(Attempt)
      /\ Len([s EXCEPT ![1] = taken]) = Len(s)
      /\ \A n \in 1..Len(s) :
            [s EXCEPT ![1] = taken][n] = IF n = 1 THEN taken ELSE s[n]
  BY <1>1, <1>3, ExceptSeq
<1>5. [s EXCEPT ![1].taken = TRUE] = [s EXCEPT ![1] = taken]
  BY DEF taken
<1> QED BY <1>3, <1>4, <1>5

\* The server takes a record.
LEMMA RecordTakenKeepsInv ==
    ASSUME SessionInv, RecordTaken
    PROVE  SessionInv'
<1> DEFINE first == Head(recording)
<1>1. /\ first = recording[1] /\ first \in Attempt
      /\ first.id \in Accounts /\ first.type \in UserTypes
      /\ DOMAIN recording = 1..Len(recording) /\ Len(recording) \in Nat \ {0}
      /\ recording \in Seq(Attempt)
  BY FirstRecord DEF SessionInv, RecordTaken, TypeOK
<1>2. /\ recording' \in Seq(Attempt)
      /\ Len(recording') = Len(recording)
      /\ \A n \in 1..Len(recording) : /\ recording'[n].id = recording[n].id
                                      /\ n # 1 => recording'[n] = recording[n]
  BY <1>1, TakenFirst DEF RecordTaken
<1>3. DOMAIN recording' = 1..Len(recording)
  BY <1>2, LenProperties
<1>4. recorded' = [recorded EXCEPT ![first.id] = first.type]
  BY DEF RecordTaken
<1>5. recorded \in [Accounts -> UserTypes \cup {"none"}]
  BY DEF SessionInv, TypeOK
<1>6. recorded' \in [Accounts -> UserTypes \cup {"none"}]
  BY <1>1, <1>4, <1>5
<1> HIDE DEF first
<1>7. \A a \in Accounts : recorded[a] # "none" \/ a = first.id => recorded'[a] # "none"
  BY <1>1, <1>4, <1>5 DEF UserTypes
<1>8. TypeOK'
  BY <1>2, <1>6 DEF SessionInv, TypeOK, RecordTaken
<1>9. CachedWasRecorded'
  BY <1>7, CachedAccount DEF SessionInv, CachedWasRecorded, IsCached, RecordTaken
<1>10. TakenIsRecorded'
  <2>1. SUFFICES ASSUME NEW n \in 1..Len(recording), recording'[n].taken
                 PROVE  recorded'[recording[n].id] # "none"
    BY <1>2, <1>3 DEF TakenIsRecorded
  <2>2. CASE n = 1
    BY <1>1, <1>7, <2>2
  <2>3. CASE n # 1
    <3>1. recording[n].taken
      BY <1>2, <2>1, <2>3
    <3>2. recording[n].id \in Accounts
      <4>1. recording[n] \in Attempt
        BY <1>1, ElementOfSeq
      <4> QED BY <4>1 DEF Attempt
    <3>3. recorded[recording[n].id] # "none"
      BY <1>1, <3>1 DEF SessionInv, TakenIsRecorded
    <3> QED BY <1>7, <3>2, <3>3
  <2> QED BY <2>2, <2>3
<1>11. NothingTakenYet'
  BY DEF SessionInv, NothingTakenYet, RecordTaken
<1> QED BY <1>8, <1>9, <1>10, <1>11 DEF SessionInv

\* The completion block of updateChildValues, however the user is cached.
LEMMA CompleteKeepsInv ==
    ASSUME SessionInv, recording # << >>, Complete(Head(recording)),
           \/ cached' = cached
           \/ /\ Head(recording).taken
              /\ cached' = [id |-> Head(recording).id, type |-> Head(recording).type]
    PROVE  SessionInv'
<1> DEFINE first == Head(recording)
<1> USE DEF SessionInv, Complete
<1>1. /\ first = recording[1] /\ first \in Attempt
      /\ first.id \in Accounts /\ first.type \in UserTypes
      /\ DOMAIN recording = 1..Len(recording) /\ Len(recording) \in Nat \ {0}
      /\ recording \in Seq(Attempt)
  BY FirstRecord DEF TypeOK
<1>2. /\ recording' \in Seq(Attempt)
      /\ Len(recording') = Len(recording) - 1
      /\ \A n \in 1..Len(recording') : recording'[n] = recording[n + 1]
  BY <1>1, HeadTailProperties
<1>3. DOMAIN recording' = 1..(Len(recording) - 1)
  BY <1>2, LenProperties
<1>4. currentUserType' \in UserTypes /\ front' \in Screens
  BY <1>1 DEF TypeOK, ShownType, Screens
<1>5. cached' \in User \cup {NoUser}
  BY <1>1 DEF TypeOK, User
<1>6. TypeOK'
  BY <1>2, <1>4, <1>5 DEF TypeOK
<1>7. CachedWasRecorded'
  <2>1. CASE cached' = cached
    BY <2>1 DEF CachedWasRecorded, IsCached
  <2>2. CASE first.taken /\ cached' = [id |-> first.id, type |-> first.type]
    BY <1>1, <2>2 DEF CachedWasRecorded, TakenIsRecorded
  <2> QED BY <2>1, <2>2
<1>8. TakenIsRecorded'
  BY <1>1, <1>2, <1>3 DEF TakenIsRecorded
<1>9. NothingTakenYet'
  BY DEF NothingTakenYet
<1> QED BY <1>6, <1>7, <1>8, <1>9

\* The next login screen: no attempt has a screen of its own any more.
LEMMA NewLoginScreenKeepsInv ==
    ASSUME SessionInv, NewLoginScreen, authUser' \in Accounts \cup {NoAccount},
           cached' = cached \/ cached' = NoUser
    PROVE  SessionInv'
<1> USE DEF SessionInv, NewLoginScreen
<1>1. recording \in Seq(Attempt) /\ authenticating \subseteq Attempt
  BY DEF TypeOK
<1>2. \A attempt \in Attempt :
         /\ [attempt EXCEPT !.current = FALSE] \in Attempt
         /\ [attempt EXCEPT !.current = FALSE].id = attempt.id
         /\ [attempt EXCEPT !.current = FALSE].taken = attempt.taken
  BY DEF Attempt
<1>3. Len(recording) \in Nat /\ DOMAIN recording = 1..Len(recording)
  BY <1>1, LenProperties
<1>4. \A n \in 1..Len(recording) : recording[n] \in Attempt
  BY <1>1, ElementOfSeq
<1>5. recording' = [n \in 1..Len(recording) |-> [recording[n] EXCEPT !.current = FALSE]]
  BY <1>3
<1>6. recording' \in Seq(Attempt) /\ DOMAIN recording' = DOMAIN recording
  BY <1>2, <1>3, <1>4, <1>5
<1>7. authenticating' \subseteq Attempt
  BY <1>1, <1>2
<1>8. TypeOK'
  BY <1>6, <1>7 DEF TypeOK, Screens, UserTypes
<1>9. CachedWasRecorded'
  BY DEF CachedWasRecorded, IsCached, NoUser
<1>10. TakenIsRecorded'
  <2>1. \A n \in DOMAIN recording : recording'[n] = [recording[n] EXCEPT !.current = FALSE]
    BY <1>3, <1>5
  <2>2. \A n \in DOMAIN recording :
           recording'[n].id = recording[n].id /\ recording'[n].taken = recording[n].taken
    BY <1>2, <1>3, <1>4, <2>1
  <2>3. recorded' = recorded
    OBVIOUS
  <2> QED BY <1>6, <2>2, <2>3, Zenon DEF TakenIsRecorded
<1>11. NothingTakenYet'
  BY <1>1, <1>2 DEF NothingTakenYet
<1> QED BY <1>8, <1>9, <1>10, <1>11

LEMMA SessionInvInductive ==
    /\ Init => SessionInv
    /\ SessionInv /\ [Next]_vars => SessionInv'
<1>1. ASSUME Init PROVE SessionInv
  <2>1. << >> \in Seq(Attempt) /\ DOMAIN << >> = {}
    BY EmptySeq
  <2>2. TypeOK
    BY <1>1, <2>1, SessionAssumption DEF Init, TypeOK, Screens, UserTypes
  <2>3. CachedWasRecorded
    BY <1>1 DEF Init, CachedWasRecorded, IsCached, NoUser
  <2> QED BY <1>1, <2>1, <2>2, <2>3 DEF Init, SessionInv, TakenIsRecorded, NothingTakenYet
<1>2. ASSUME SessionInv, [Next]_vars PROVE SessionInv'
  <2>0. /\ TypeOK /\ currentUserType \in UserTypes /\ front \in Screens
        /\ authUser \in Accounts \cup {NoAccount}
        /\ facebookToken \in Accounts \cup {NoAccount}
    BY <1>2 DEF SessionInv, TypeOK
  <2>1. CASE ConfigureOnLaunch
    <3>1. front' \in Screens
      BY <2>0, <2>1, CachedAccount DEF ConfigureOnLaunch, IsCached, Screens
    <3> QED BY <1>2, <2>0, <2>1, <3>1, ScreenStepKeepsInv DEF ConfigureOnLaunch
  <2>2. CASE \E type \in UserTypes : ChangeUserType(type)
    BY <1>2, <2>0, <2>2, ScreenStepKeepsInv DEF ChangeUserType
  <2>3. ASSUME NEW account \in Accounts, NEW kind \in Kinds, Tap(kind, account)
        PROVE  SessionInv'
    BY <1>2, <2>0, <2>3, CallKeepsInv DEF Tap
  <2>4. ASSUME NEW account \in Accounts, FacebookLogin(account)
        PROVE  SessionInv'
    BY <1>2, <2>4, CallKeepsInv DEF FacebookLogin
  <2>5. CASE FacebookCancelled
    BY <1>2, <2>0, <2>5, ProcessEndsKeepsInv DEF FacebookCancelled
  <2>6. CASE FacebookLogout
    BY <1>2, <2>0, <2>6, ScreenStepKeepsInv DEF FacebookLogout, SignedOut
  <2>7. ASSUME NEW attempt \in authenticating,
               Authenticated(attempt) \/ NotAuthenticated(attempt)
        PROVE  SessionInv'
    <3>1. CASE Authenticated(attempt)
      BY <1>2, <3>1, AuthenticatedKeepsInv
    <3>2. CASE NotAuthenticated(attempt)
      BY <1>2, <2>0, <3>2, ProcessEndsKeepsInv DEF NotAuthenticated
    <3> QED BY <2>7, <3>1, <3>2
  <2>8. CASE RecordTaken
    BY <1>2, <2>8, RecordTakenKeepsInv
  <2>9. CASE RecordSaved
    BY <1>2, <2>9, CompleteKeepsInv DEF RecordSaved
  <2>10. CASE RecordRefused
    BY <1>2, <2>10, CompleteKeepsInv DEF RecordRefused
  <2>11. CASE SignOut
    BY <1>2, <2>11, NewLoginScreenKeepsInv DEF SignOut, SignedOut
  <2>12. CASE SignOutThrows
    BY <1>2, <2>0, <2>12, NewLoginScreenKeepsInv DEF SignOutThrows
  <2>13. CASE Terminate
    BY <1>2, <2>0, <2>13, ProcessEndsKeepsInv DEF Terminate
  <2>14. CASE UNCHANGED vars
    <3>1. UNCHANGED << pending, recorded >>
      BY <2>14 DEF vars, pending
    <3> QED BY <1>2, <2>0, <2>14, <3>1, ScreenStepKeepsInv DEF vars
  <2> QED BY <1>2, <2>1, <2>2, <2>3, <2>4, <2>5, <2>6, <2>7, <2>8, <2>9, <2>10,
             <2>11, <2>12, <2>13, <2>14 DEF Next
<1> QED BY <1>1, <1>2

LEMMA SessionInvHolds == Spec => []SessionInv
<1> QED BY SessionInvInductive, PTL DEF Spec

\* Every variable keeps its type.
THEOREM SessionTypeCorrect == Spec => []TypeOK
<1>1. SessionInv => TypeOK
  BY DEF SessionInv
<1> QED BY <1>1, SessionInvHolds, PTL

\* Whatever overlaps, is refused or dies: who is cached by writeUserInfo has a
\* record in the database.
THEOREM CachedWasRecordedAlways == Spec => []CachedWasRecorded
<1>1. SessionInv => CachedWasRecorded
  BY DEF SessionInv
<1> QED BY <1>1, SessionInvHolds, PTL
-----------------------------------------------------------------------------
(***************************************************************************)
(* Part 2.  One login by mail at a time, with records that are not         *)
(* refused: the user who logs in is the only one around, because nobody is *)
(* cached while the login screen is in front.                              *)
(***************************************************************************)
MailOneByOne == Kinds = {"mail"} /\ MaxPending = 1 /\ ~WritesMayFail

Idle == authenticating = {} /\ recording = << >>

\* The attempt waits for Firebase's authentication ...
Authenticating(attempt) ==
    /\ authenticating = {attempt}
    /\ recording = << >>
    /\ front = "login"
    /\ attempt.current
    /\ attempt.tap <= taps

\* ... or for the answer to its record.
Recording ==
    /\ authenticating = {}
    /\ Len(recording) = 1
    /\ front = "login"
    /\ recording[1].current
    /\ recording[1].tap <= taps
    /\ authUser = recording[1].id
    /\ recording[1].taken => recorded[recording[1].id] = recording[1].type

OneAtATime == Idle \/ (\E attempt \in Attempt : Authenticating(attempt)) \/ Recording

NobodyBehindLogin == front = "login" => ~IsCached

Agree == CachedIsSignedIn /\ CachedTypeIsRecorded /\ ScreensFitUser /\ SomebodyIsCached

MailInv == OneAtATime /\ NobodyBehindLogin /\ facebookToken = NoAccount /\ Agree

\* While nobody is cached and the login screen is in front, all agree.
LEMMA LoginScreenAgrees ==
    ASSUME front = "login", ~IsCached
    PROVE  NobodyBehindLogin /\ Agree
<1> QED BY DEF NobodyBehindLogin, Agree, CachedIsSignedIn, CachedTypeIsRecorded,
              ScreensFitUser, SomebodyIsCached, UserTypes

\* No attempt is under way unless the login screen is in front.
LEMMA OtherScreensAreIdle ==
    ASSUME OneAtATime, front # "login"
    PROVE  Idle
<1> QED BY DEF OneAtATime, Authenticating, Recording

\* The process ends, or a user leaves by the Browse screen: the launch screen.
LEMMA LaunchScreenKeepsMailInv ==
    ASSUME MailInv, Idle', front' = "launch", facebookToken' = NoAccount,
           UNCHANGED recorded,
           UNCHANGED << authUser, cached >> \/ cached' = NoUser
    PROVE  MailInv'
<1>1. OneAtATime'
  BY DEF OneAtATime
<1>2. CachedIsSignedIn' /\ CachedTypeIsRecorded'
  BY DEF MailInv, Agree, CachedIsSignedIn, CachedTypeIsRecorded, IsCached, NoUser
<1> QED BY <1>1, <1>2
        DEF MailInv, Agree, NobodyBehindLogin, ScreensFitUser, SomebodyIsCached, UserTypes

\* configureOnLaunch leads to the screens of the cached user or to the login screen.
LEMMA ConfigureKeepsMailInv ==
    ASSUME SessionInv, MailInv, ConfigureOnLaunch
    PROVE  MailInv'
<1>1. Idle /\ Idle'
  BY OtherScreensAreIdle DEF MailInv, ConfigureOnLaunch, Idle, pending
<1>2. IsCached => cached.type \in UserTypes
  BY CachedAccount DEF SessionInv
<1>3. OneAtATime'
  BY <1>1 DEF OneAtATime
<1>4. CachedIsSignedIn' /\ CachedTypeIsRecorded'
  BY DEF MailInv, Agree, ConfigureOnLaunch, CachedIsSignedIn, CachedTypeIsRecorded, IsCached
<1>5. NobodyBehindLogin' /\ ScreensFitUser' /\ SomebodyIsCached'
  BY <1>2 DEF ConfigureOnLaunch, NobodyBehindLogin, ScreensFitUser, SomebodyIsCached,
              IsCached, UserTypes
<1> QED BY <1>3, <1>4, <1>5 DEF MailInv, Agree, ConfigureOnLaunch

\* A tap that finds no other attempt.
LEMMA TapKeepsMailInv ==
    ASSUME Idle, SessionInv, MailInv, NEW kind \in Kinds, NEW account \in Accounts,
           Tap(kind, account), SessionInv'
    PROVE  MailInv'
<1> DEFINE new == [tap |-> taps + 1, kind |-> kind, id |-> account,
                   type |-> currentUserType, current |-> TRUE, taken |-> FALSE]
<1>1. front = "login" /\ front' = "login" /\ UNCHANGED << recording, cached, facebookToken >>
  BY DEF Tap, Call
<1>2. authenticating' = authenticating \cup {new} /\ new.current
  BY DEF Tap, Call
<1>3. new.tap <= taps'
  BY DEF Tap, Call, SessionInv, TypeOK
<1> HIDE DEF new
<1>5. new \in Attempt
  BY <1>2, Zenon DEF SessionInv, TypeOK
<1>6. PICK attempt \in Attempt : attempt = new
  BY <1>5
<1>7. OneAtATime'
  <2>1. authenticating' = {attempt} /\ recording' = << >> /\ attempt.current
    BY <1>1, <1>2, <1>6 DEF Idle
  <2>2. Authenticating(attempt)'
    BY <1>1, <1>3, <1>6, <2>1 DEF Authenticating
  <2> QED BY <2>2 DEF OneAtATime
<1>8. ~IsCached'
  BY <1>1 DEF MailInv, NobodyBehindLogin, IsCached
<1>9. NobodyBehindLogin' /\ Agree'
  BY <1>1, <1>8 DEF NobodyBehindLogin, Agree, CachedIsSignedIn, CachedTypeIsRecorded,
                    ScreensFitUser, SomebodyIsCached, UserTypes
<1> QED BY <1>1, <1>7, <1>9 DEF MailInv

\* The attempt goes from the one state to the other.
LEMMA AuthenticatedKeepsMailInv ==
    ASSUME SessionInv, MailInv, NEW attempt \in authenticating, Authenticated(attempt)
    PROVE  MailInv'
<1>1. Authenticating(attempt)
  BY DEF MailInv, OneAtATime, Idle, Recording, Authenticating
<1>2. authenticating' = {} /\ recording' = << attempt >> /\ authUser' = attempt.id
  <2>1. recording' = Append(<< >>, attempt)
    BY <1>1 DEF Authenticated, Authenticating
  <2> QED BY <1>1, <2>1 DEF Authenticated, Authenticating
<1>3. front = "login" /\ UNCHANGED << front, cached, facebookToken, taps >>
  BY <1>1 DEF Authenticated, Authenticating
<1>4. ~attempt.taken /\ attempt.current /\ attempt.tap <= taps
  BY <1>1 DEF SessionInv, NothingTakenYet, Authenticating
<1>5. Recording'
  BY <1>2, <1>3, <1>4 DEF Recording
<1>6. ~IsCached'
  BY <1>3 DEF MailInv, NobodyBehindLogin, IsCached
<1>7. NobodyBehindLogin' /\ Agree'
  BY <1>3, <1>6 DEF NobodyBehindLogin, Agree, CachedIsSignedIn, CachedTypeIsRecorded,
                    ScreensFitUser, SomebodyIsCached, UserTypes
<1> QED BY <1>3, <1>5, <1>7 DEF MailInv, OneAtATime

\* A record on its way is that of the only attempt.
LEMMA RecordingWhenSent ==
    ASSUME MailInv, recording # << >>
    PROVE  Recording
<1> QED BY DEF MailInv, OneAtATime, Idle, Authenticating

LEMMA RecordTakenKeepsMailInv ==
    ASSUME SessionInv, MailInv, RecordTaken
    PROVE  MailInv'
<1>1. Recording /\ recording # << >>
  BY RecordingWhenSent DEF RecordTaken
<1>2. /\ Head(recording) = recording[1] /\ recording[1] \in Attempt
      /\ recording[1].id \in Accounts
      /\ recording \in Seq(Attempt)
  BY <1>1, FirstRecord DEF SessionInv, TypeOK
<1>3. /\ recording' \in Seq(Attempt)
      /\ Len(recording') = 1
      /\ recording'[1].id = recording[1].id
      /\ recording'[1].type = recording[1].type
      /\ recording'[1].current
      /\ recording'[1].tap = recording[1].tap
  <2>1. recording' = [recording EXCEPT ![1] = [recording[1] EXCEPT !.taken = TRUE]]
    BY DEF RecordTaken
  <2>2. 1 \in 1..Len(recording) /\ Len(recording) = 1
    BY <1>1 DEF Recording
  <2>3. /\ recording' \in Seq(Attempt)
        /\ Len(recording') = Len(recording)
        /\ recording'[1].id = recording[1].id
        /\ recording'[1].type = recording[1].type
    BY <1>1, <1>2, <2>2, TakenFirst DEF RecordTaken
  <2>4. recording'[1] = [recording[1] EXCEPT !.taken = TRUE]
    BY <1>2, <2>1, <2>2, LenProperties
  <2>5. /\ recording'[1].current = recording[1].current
        /\ recording'[1].tap = recording[1].tap
    BY <1>2, <2>4 DEF Attempt
  <2> QED BY <1>1, <2>2, <2>3, <2>5 DEF Recording
<1>4. recorded'[recording[1].id] = recording[1].type
  BY <1>2 DEF RecordTaken, SessionInv, TypeOK
<1>5. /\ front = "login"
      /\ UNCHANGED << front, authenticating, authUser, cached, facebookToken, taps >>
  BY <1>1 DEF RecordTaken, Recording
<1>6. Recording'
  BY <1>1, <1>3, <1>4, <1>5 DEF Recording
<1>7. ~IsCached'
  BY <1>5 DEF MailInv, NobodyBehindLogin, IsCached
<1>8. NobodyBehindLogin' /\ Agree'
  BY <1>5, <1>7 DEF NobodyBehindLogin, Agree, CachedIsSignedIn, CachedTypeIsRecorded,
                    ScreensFitUser, SomebodyIsCached, UserTypes
<1> QED BY <1>5, <1>6, <1>8 DEF MailInv, OneAtATime

\* writeUserInfo and the segue: user, database, Firebase and screens agree.
LEMMA RecordSavedKeepsMailInv ==
    ASSUME SessionInv, MailInv, RecordSaved, Head(recording).kind = "mail"
    PROVE  MailInv'
<1> DEFINE first == recording[1]
<1>1. Recording /\ recording # << >>
  BY RecordingWhenSent DEF RecordSaved
<1>2. /\ Head(recording) = first /\ first \in Attempt
      /\ first.id \in Accounts /\ first.type \in UserTypes
      /\ recording \in Seq(Attempt)
  BY <1>1, FirstRecord DEF SessionInv, TypeOK
<1>3. first.taken /\ first.current /\ first.kind = "mail"
  BY <1>1, <1>2 DEF RecordSaved, Recording, Attempt
<1>4. /\ authUser' = first.id /\ recorded' = recorded /\ facebookToken' = facebookToken
      /\ recorded[first.id] = first.type
  BY <1>1, <1>3 DEF RecordSaved, Complete, Recording
<1>5. cached' = [id |-> first.id, type |-> first.type]
  BY <1>2 DEF RecordSaved
<1>6. front' = first.type
  BY <1>1, <1>2, <1>3 DEF RecordSaved, Complete, ShownType, Recording
<1>7. Idle'
  <2>1. recording' \in Seq(Attempt) /\ Len(recording') = 0
    BY <1>1, <1>2, HeadTailProperties DEF RecordSaved, Complete, Recording
  <2>2. recording' = << >>
    BY <2>1, EmptySeq
  <2> QED BY <1>1, <2>2 DEF Idle, RecordSaved, Complete, Recording
<1> HIDE DEF first
<1>8. NobodyBehindLogin'
  BY <1>2, <1>6 DEF NobodyBehindLogin, UserTypes
<1>9. IsCached'
  BY <1>2, <1>5, SessionAssumption DEF IsCached
<1>10. Agree'
  BY <1>4, <1>5, <1>6, <1>9
     DEF Agree, CachedIsSignedIn, CachedTypeIsRecorded, ScreensFitUser, SomebodyIsCached
<1> QED BY <1>4, <1>7, <1>8, <1>10 DEF MailInv, OneAtATime

\* signOutButtonItemDidTap: no attempt has a screen that could be left behind.
LEMMA NewLoginScreenIsIdle ==
    ASSUME SessionInv, MailInv, front = "consumer", NewLoginScreen
    PROVE  Idle'
<1>1. authenticating = {} /\ recording = << >>
  BY OtherScreensAreIdle DEF MailInv, Idle
<1>2. authenticating' = {}
  BY <1>1 DEF NewLoginScreen
<1>3. DOMAIN recording = {}
  BY <1>1, EmptySeq
<1>4. recording' = << >>
  <2>1. recording' = [n \in {} |-> [recording[n] EXCEPT !.current = FALSE]]
    BY <1>3 DEF NewLoginScreen
  <2>2. DOMAIN << >> = {}
    BY EmptySeq
  <2> QED BY <2>1, <2>2
<1> QED BY <1>2, <1>4 DEF Idle

LEMMA MailInit == Init => MailInv
BY DEF Init, MailInv, OneAtATime, Idle, NobodyBehindLogin, Agree, CachedIsSignedIn,
       CachedTypeIsRecorded, ScreensFitUser, SomebodyIsCached, IsCached, NoUser, UserTypes

\* Every step that adds no second attempt, no other kind of login and no refusal.
LEMMA MailStep ==
    ASSUME SessionInv, MailInv, [Next]_vars,
           ~RecordRefused,
           \A account \in Accounts : ~FacebookLogin(account),
           \A account \in Accounts : \A kind \in Kinds : Tap(kind, account) => Idle,
           recording # << >> => Head(recording).kind = "mail"
    PROVE  MailInv'
<1>0. facebookToken = NoAccount
  BY DEF MailInv
<1>1. ASSUME ProcessEnds, facebookToken' = NoAccount PROVE MailInv'
  BY <1>1, LaunchScreenKeepsMailInv DEF ProcessEnds, Idle
<1>2. CASE ConfigureOnLaunch
  BY <1>2, ConfigureKeepsMailInv
<1>3. CASE UNCHANGED << front, pending, authUser, facebookToken, cached, recorded, taps >>
  BY <1>3 DEF MailInv, OneAtATime, Idle, Authenticating, Recording, NobodyBehindLogin,
     Agree, CachedIsSignedIn, CachedTypeIsRecorded, ScreensFitUser, SomebodyIsCached,
     IsCached, pending
<1>4. ASSUME NEW account \in Accounts, NEW kind \in Kinds, Tap(kind, account)
      PROVE  MailInv'
  <2>1. SessionInv'
    BY SessionInvInductive
  <2> QED BY <1>4, <2>1, TapKeepsMailInv
<1>5. CASE FacebookCancelled
  BY <1>0, <1>1, <1>5 DEF FacebookCancelled
<1>6. ~FacebookLogout
  BY <1>0 DEF FacebookLogout
<1>7. ASSUME NEW attempt \in authenticating,
             Authenticated(attempt) \/ NotAuthenticated(attempt)
      PROVE  MailInv'
  <2>1. CASE Authenticated(attempt)
    BY <2>1, AuthenticatedKeepsMailInv
  <2>2. CASE NotAuthenticated(attempt)
    BY <1>0, <1>1, <2>2 DEF NotAuthenticated
  <2> QED BY <1>7, <2>1, <2>2
<1>8. CASE RecordTaken
  BY <1>8, RecordTakenKeepsMailInv
<1>9. CASE RecordSaved
  BY <1>9, RecordSavedKeepsMailInv DEF RecordSaved
<1>10. CASE SignOut \/ SignOutThrows
  <2>1. /\ front = "consumer" /\ NewLoginScreen
        /\ UNCHANGED << authUser, cached >> \/ cached' = NoUser
    BY <1>10 DEF SignOut, SignOutThrows, SignedOut
  <2>2. Idle'
    BY <2>1, NewLoginScreenIsIdle
  <2> QED BY <1>0, <2>1, <2>2, LaunchScreenKeepsMailInv DEF NewLoginScreen
<1>11. CASE Terminate
  BY <1>0, <1>1, <1>11 DEF Terminate
<1>12. CASE \E type \in UserTypes : ChangeUserType(type)
  BY <1>3, <1>12 DEF ChangeUserType
<1>13. CASE UNCHANGED vars
  BY <1>3, <1>13 DEF vars, pending
<1> QED BY <1>2, <1>4, <1>5, <1>6, <1>7, <1>8, <1>9, <1>10, <1>11, <1>12, <1>13 DEF Next

\* Where attempts cannot overlap, a tap finds none.
LEMMA TapIsAlone ==
    ASSUME MailOneByOne, MailInv, NEW kind \in Kinds, NEW account \in Accounts,
           Tap(kind, account)
    PROVE  Idle
<1>1. Cardinality(authenticating) + Len(recording) < 1
  BY DEF Tap, Call, MailOneByOne
<1>2. CASE \E attempt \in Attempt : authenticating = {attempt} /\ recording = << >>
  <2>1. Cardinality(authenticating) = 1
    BY <1>2, FS_Singleton, Zenon
  <2>2. Len(recording) = 0
    BY <1>2, EmptySeq
  <2> QED BY <1>1, <2>1, <2>2
<1>3. CASE authenticating = {} /\ Len(recording) = 1
  <2>1. Cardinality(authenticating) = 0
    BY <1>3, FS_EmptySet, Zenon
  <2> QED BY <1>1, <1>3, <2>1
<1> QED BY <1>2, <1>3 DEF MailInv, OneAtATime, Authenticating, Recording

\* With logins by mail one after the other and records never refused, over all
\* sign-outs, crashes and restarts: the cached user is the one Firebase has signed
\* in, the database has the same type for it, the screens are those of that type,
\* and no consumer's or vendor's screen is shown without a cached user.
THEOREM MailLoginsAgree ==
    ASSUME MailOneByOne
    PROVE  Spec => [](CachedIsSignedIn /\ CachedTypeIsRecorded
                      /\ ScreensFitUser /\ SomebodyIsCached)
<1>1. SessionInv /\ MailInv /\ [Next]_vars => MailInv'
  <2> SUFFICES ASSUME SessionInv, MailInv, [Next]_vars PROVE MailInv'
    OBVIOUS
  <2>1. ~RecordRefused /\ \A account \in Accounts : ~FacebookLogin(account)
    BY DEF RecordRefused, FacebookLogin, MailOneByOne
  <2>2. \A account \in Accounts : \A kind \in Kinds : Tap(kind, account) => Idle
    BY TapIsAlone
  <2>3. recording # << >> => Head(recording).kind = "mail"
    <3>1. SUFFICES ASSUME recording # << >> PROVE Head(recording).kind \in Kinds
      BY DEF MailOneByOne
    <3>2. Head(recording) \in Attempt
      BY <3>1, HeadTailProperties DEF SessionInv, TypeOK
    <3> QED BY <3>2 DEF Attempt
  <2> QED BY <2>1, <2>2, <2>3, MailStep
<1>2. MailInv => CachedIsSignedIn /\ CachedTypeIsRecorded
                 /\ ScreensFitUser /\ SomebodyIsCached
  BY DEF MailInv, Agree
<1> QED BY <1>1, <1>2, MailInit, SessionInvHolds, PTL DEF Spec

-----------------------------------------------------------------------------
(***************************************************************************)
(* The same of every behaviour for as long as it is calm, with whatever    *)
(* else the app offers and Firebase may do.                                *)
(***************************************************************************)
CalmInv == SessionInv /\ (calm => MailInv /\ OneMailLogin)

\* A second attempt would be seen, its number being new.
LEMMA CalmTapIsAlone ==
    ASSUME SessionInv, MailInv, OneMailLogin', NEW kind \in Kinds, NEW account \in Accounts,
           Tap(kind, account)
    PROVE  Idle
<1> DEFINE new == [tap |-> taps + 1, kind |-> kind, id |-> account,
                   type |-> currentUserType, current |-> TRUE, taken |-> FALSE]
<1>1. authenticating' = authenticating \cup {new} /\ recording' = recording
  BY DEF Tap, Call
<1>2. new.tap = taps + 1 /\ taps \in Nat
  BY DEF SessionInv, TypeOK
<1> HIDE DEF new
<1>3. ASSUME NEW attempt \in Pending PROVE ~(attempt.tap <= taps)
  <2>1. attempt \in Pending' /\ new \in Pending' /\ IsFiniteSet(Pending')
    <3>1. attempt \in Pending' /\ new \in Pending'
      BY <1>1, <1>3 DEF Pending
    <3>2. OneAtATime
      BY DEF MailInv
    <3>3. IsFiniteSet(authenticating)
      BY <3>2, FS_EmptySet, FS_Singleton DEF OneAtATime, Idle, Authenticating, Recording
    <3>4. IsFiniteSet(authenticating')
      BY <1>1, <3>3, FS_AddElement
    <3>5. DOMAIN recording = {} \/ DOMAIN recording = {1}
      <4>1. CASE recording = << >>
        BY <4>1
      <4>2. CASE Len(recording) = 1
        BY <4>2, LenProperties DEF SessionInv, TypeOK
      <4> QED BY <3>2, <4>1, <4>2 DEF OneAtATime, Idle, Authenticating, Recording
    <3> DEFINE sent == {recording[n] : n \in DOMAIN recording}
    <3>6. sent = {} \/ sent = {recording[1]}
      BY <3>5
    <3> HIDE DEF sent
    <3>7. IsFiniteSet(sent)
      <4>1. CASE sent = {}
        BY <4>1, FS_EmptySet
      <4>2. CASE sent = {recording[1]}
        BY <4>2, FS_Singleton
      <4> QED BY <3>6, <4>1, <4>2
    <3>8. IsFiniteSet(authenticating' \cup sent)
      BY <3>4, <3>7, FS_Union
    <3>9. Pending' = authenticating' \cup sent
      BY <1>1 DEF Pending, sent
    <3> QED BY <3>1, <3>8, <3>9
  <2>2. {attempt, new} \subseteq Pending' /\ Cardinality(Pending') <= 1
    BY <2>1 DEF OneMailLogin
  <2>3. attempt = new
    <3> SUFFICES ASSUME attempt # new PROVE FALSE
      OBVIOUS
    <3>1. IsFiniteSet({attempt}) /\ Cardinality({attempt}) = 1
      BY FS_Singleton
    <3>2. Cardinality({attempt} \cup {new}) = 2
      BY <3>1, FS_AddElement
    <3>3. {attempt} \cup {new} = {attempt, new}
      OBVIOUS
    <3>4. Cardinality({attempt, new}) <= Cardinality(Pending') /\ Cardinality(Pending') \in Nat
      BY <2>1, <2>2, FS_Subset, FS_CardinalityType
    <3> QED BY <2>2, <3>2, <3>3, <3>4
  <2> QED BY <1>2, <2>3
<1>4. \A attempt \in Attempt : ~Authenticating(attempt)
  BY <1>3 DEF Authenticating, Pending
<1>5. ~Recording
  <2> SUFFICES ASSUME Recording PROVE FALSE
    OBVIOUS
  <2>1. 1 \in DOMAIN recording
    BY LenProperties DEF Recording, SessionInv, TypeOK
  <2> QED BY <1>3, <2>1 DEF Recording, Pending
<1> QED BY <1>4, <1>5 DEF MailInv, OneAtATime

LEMMA CalmStep ==
    ASSUME CalmInv, [CalmNext]_<< vars, calm >>
    PROVE  CalmInv'
<1>1. SessionInv'
  BY SessionInvInductive DEF CalmInv, CalmNext
<1> SUFFICES ASSUME calm' PROVE MailInv' /\ OneMailLogin'
  BY <1>1 DEF CalmInv
<1>2. CASE UNCHANGED << vars, calm >>
  <2>1. SessionInv /\ MailInv /\ OneMailLogin /\ UNCHANGED vars
    BY <1>2 DEF CalmInv
  <2> QED BY <2>1 DEF vars, OneMailLogin, Pending, MailInv, OneAtATime, Idle, Authenticating,
       Recording, NobodyBehindLogin, Agree, CachedIsSignedIn, CachedTypeIsRecorded,
       ScreensFitUser, SomebodyIsCached, IsCached
<1>3. CASE CalmNext
  <2>1. Next /\ SessionInv /\ MailInv /\ OneMailLogin /\ OneMailLogin' /\ ~RecordRefused
    BY <1>3 DEF CalmNext, CalmInv
  <2>2. ASSUME NEW account \in Accounts, FacebookLogin(account) PROVE FALSE
    <3> DEFINE new == [tap |-> taps + 1, kind |-> "facebook", id |-> account,
                       type |-> currentUserType, current |-> TRUE, taken |-> FALSE]
    <3>1. new \in authenticating' /\ new.kind = "facebook"
      BY <2>2 DEF FacebookLogin, Call
    <3> HIDE DEF new
    <3> QED BY <2>1, <3>1 DEF OneMailLogin, Pending
  <2>3. \A account \in Accounts : \A kind \in Kinds : Tap(kind, account) => Idle
    BY <2>1, CalmTapIsAlone
  <2>4. recording # << >> => Head(recording).kind = "mail"
    <3> SUFFICES ASSUME recording # << >> PROVE Head(recording).kind = "mail"
      OBVIOUS
    <3>1. recording \in Seq(Attempt)
      BY <2>1 DEF SessionInv, TypeOK
    <3>2. 1 \in DOMAIN recording /\ Head(recording) = recording[1]
      BY <3>1, EmptySeq, LenProperties
    <3> QED BY <2>1, <3>2 DEF OneMailLogin, Pending
  <2> QED BY <2>1, <2>2, <2>3, <2>4, MailStep
<1> QED BY <1>2, <1>3

\* In every state reached by calm logins only, whatever sign-outs, crashes, cancelled
\* dialogs and restarts there were: cache, Firebase, database and screens agree, and
\* somebody is cached behind every consumer's or vendor's screen.
THEOREM CalmLoginsAgree == CalmSpec => [](calm => Agree)
<1>1. CalmInit => CalmInv
  <2> SUFFICES ASSUME Init PROVE SessionInv /\ MailInv /\ OneMailLogin
    BY DEF CalmInit, CalmInv
  <2>1. Pending = {}
    BY DEF Init, Pending
  <2>2. OneMailLogin
    BY <2>1, FS_EmptySet DEF OneMailLogin
  <2> QED BY <2>2, MailInit, SessionInvInductive
<1>2. CalmInv /\ [CalmNext]_<< vars, calm >> => CalmInv'
  BY CalmStep
<1>3. CalmInv => (calm => Agree)
  BY DEF CalmInv, MailInv
<1> QED BY <1>1, <1>2, <1>3, PTL DEF CalmSpec

\* Over calm logins the cached user is the one Firebase has signed in.
THEOREM CalmCachedIsSignedInAlways == CalmSpec => []CalmCachedIsSignedIn
<1>1. (calm => Agree) => CalmCachedIsSignedIn
  BY DEF Agree, CalmCachedIsSignedIn
<1> QED BY <1>1, CalmLoginsAgree, PTL

\* Over calm logins the screens in front are those of the cached user.
THEOREM CalmScreensFitUserAlways == CalmSpec => []CalmScreensFitUser
<1>1. (calm => Agree) => CalmScreensFitUser
  BY DEF Agree, CalmScreensFitUser
<1> QED BY <1>1, CalmLoginsAgree, PTL
=============================================================================

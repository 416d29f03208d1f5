----------------------------- MODULE MCSession -----------------------------
(***************************************************************************)
(* Two accounts for TLC, and a history variable: whether the logins so far *)
(* were calm, by mail, one after the other, none with its record refused.  *)
(* The agreement of cache, Firebase and screens is claimed of calm logins; *)
(* every other behaviour is explored by the same run.                      *)
(***************************************************************************)
EXTENDS Session

CONSTANTS alice, bob

VARIABLE calm

Pending == authenticating \cup {recording[n] : n \in DOMAIN recording}

OneMailLogin ==
    /\ Cardinality(Pending) <= 1
    /\ \A attempt \in Pending : attempt.kind = "mail"

CalmInit == Init /\ calm = TRUE

CalmNext == Next /\ calm' = (calm /\ OneMailLogin' /\ ~RecordRefused)

CalmSpec == CalmInit /\ [][CalmNext]_<< vars, calm >> /\ Fairness

\* Over calm logins, sign-outs, crashes and restarts the cached user is the one
\* Firebase has signed in (AuthController.signIn, signOut).
CalmCachedIsSignedIn == calm => CachedIsSignedIn

\* Over the same the screens in front are those of the cached user, the ones the
\* next start of the app will show (LoginViewController.signIn, configureOnLaunch).
CalmScreensFitUser == calm => ScreensFitUser
=============================================================================

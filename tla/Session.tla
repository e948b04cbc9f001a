------------------------------- MODULE Session -------------------------------
(***************************************************************************)
(* Who is logged in.  Three places know it: the Firebase session, the one  *)
(* row of Core Data that the screens behind the login read, and the fields *)
(* of the login screen.  Each survives something else (a logout, a restart *)
(* of the app, neither) and they are written one after the other, by       *)
(* callbacks, while the app may be killed at any moment.                   *)
(***************************************************************************)
EXTENDS Naturals

CONSTANTS
  Account,      (* the accounts, named by their e-mail                     *)
  Nobody,       (* no account: an empty field, no session, an empty alias  *)
  NoRow,        (* Core Data holds no row                                  *)
  NoAttempt,    (* no login or signup is under way                         *)
  Size,         (* Application.canvas_sizes                                *)
  DefaultSize,  (* 8                                                       *)
  MaxRestarts   (* bounds the restarts of the app                          *)

Person == Account \cup {Nobody}

Row == [username : Person, auto : BOOLEAN, alias : Person, size : Size, option : {0, 1}]

Attempt == [kind : {"login", "signup"}, email : Person,
            stage : {"asked", "accepted", "refused", "signed in", "saved", "failed"}]

Settings == [alias : Person, size : Size, option : {0, 1}]

Form == [email : Person, auto : BOOLEAN]

Behind == {"canvas", "feeds", "profile"}

ASSUME NobodyAssumption == Nobody \notin Account
ASSUME NoRowAssumption == NoRow \notin Row
ASSUME NoAttemptAssumption == NoAttempt \notin Attempt
ASSUME SizeAssumption == DefaultSize \in Size
ASSUME RestartsAssumption == MaxRestarts \in Nat

VARIABLES
  accounts,   (* the accounts that exist on the server                     *)
  user,       (* Auth.auth().currentUser                                   *)
  row,        (* the row of entity User; an alias is named by who chose it *)
  screen,     (* the screen on top                                         *)
  enabled,    (* the login screen's isUserInteractionEnabled               *)
  animation,  (* the login screen's animation under way, or cut short      *)
  form,       (* its fields email and auto_signin                          *)
  error,      (* its errorLabel is not empty                               *)
  attempt,    (* the login or signup under way, with the account asked for *)
  profile,    (* the controls of the profile screen, while it is on top    *)
  restarts,   (* the number of restarts                                    *)
  chosen,     (* history: whose automatic login was chosen and not revoked *)
  interrupted (* history: the app was killed between the two saves of a    *)
              (* login, and none was completed since                       *)

vars == <<accounts, user, row, screen, enabled, animation, form, error,
          attempt, profile, restarts, chosen, interrupted>>

NoForm == [email |-> Nobody, auto |-> FALSE]

Defaults == [alias |-> Nobody, size |-> DefaultSize, option |-> 0]

-----------------------------------------------------------------------------
(* saveLogins(): the settings stay, whoever logs in.                       *)
SaveLogins(username, auto) ==
  row' = IF row = NoRow
         THEN [username |-> username, auto |-> auto, alias |-> Nobody,
               size |-> DefaultSize, option |-> 0]
         ELSE [row EXCEPT !.username = username, !.auto = auto]

(* saveProfileSettings(), saveCanvasSize() and disableAutoLogin() change   *)
(* the row if there is one.                                                *)
SaveProfileSettings(s) ==
  row' = IF row = NoRow THEN NoRow
         ELSE [row EXCEPT !.alias = s.alias, !.size = s.size, !.option = s.option]

SaveCanvasSize(size) ==
  row' = IF row = NoRow THEN NoRow ELSE [row EXCEPT !.size = size]

DisableAutoLogin ==
  row' = IF row = NoRow THEN NoRow ELSE [row EXCEPT !.auto = FALSE]

(* A new LoginViewController: viewDidLoad() starts the opening animation,  *)
(* viewWillAppear() fills in what is stored.                               *)
ShowLoginScreen(stored) ==
  /\ screen' = "login"
  /\ enabled' = TRUE
  /\ animation' = "opening"
  /\ form' = IF stored = NoRow THEN NoForm
             ELSE [email |-> stored.username, auto |-> stored.auto]
  /\ error' = FALSE

(* The app has just been installed.                                        *)
Init ==
  /\ accounts \in SUBSET Account
  /\ user = Nobody /\ row = NoRow
  /\ screen = "launch" /\ enabled = FALSE /\ animation = "none"
  /\ form = NoForm /\ error = FALSE /\ attempt = NoAttempt /\ profile = Defaults
  /\ restarts = 0 /\ chosen = Nobody /\ interrupted = FALSE

-----------------------------------------------------------------------------
(* The launch animation opens the login screen; if it does not finish (the *)
(* app has gone to the background), the app stays where it is.             *)
LaunchEnds ==
  /\ screen = "launch"
  /\ \/ ShowLoginScreen(row)
     \/ /\ screen' = "frozen"
        /\ UNCHANGED <<enabled, animation, form, error>>
  /\ UNCHANGED <<accounts, user, row, attempt, profile, restarts, chosen, interrupted>>

(* loginRequested(): the screen is disabled until the answer is handled.   *)
LoginRequested ==
  /\ enabled' = FALSE
  /\ attempt' = [kind |-> "login", email |-> form.email, stage |-> "asked"]

(* The end of the opening animation logs in by itself if that is ticked.   *)
OpeningEnds ==
  /\ animation = "opening"
  /\ animation' = "none"
  /\ \/ form.auto /\ LoginRequested
     \/ ~form.auto /\ UNCHANGED <<enabled, attempt>>
  /\ UNCHANGED <<accounts, user, row, screen, form, error, profile, restarts, chosen, interrupted>>

(* The form takes no taps while it fades in.                               *)
FormOpen(s) == screen = s /\ enabled /\ animation = "none"

EditForm ==
  /\ FormOpen("login")
  /\ \/ \E e \in Person : form' = [form EXCEPT !.email = e]
     \/ form' = [form EXCEPT !.auto = ~form.auto]
  /\ UNCHANGED <<accounts, user, row, screen, enabled, animation, error, attempt,
                 profile, restarts, chosen, interrupted>>

(* Mutant: the form stays enabled while the answer is awaited.             *)
PressLoginOpen ==
  /\ FormOpen("login")
  /\ attempt' = [kind |-> "login", email |-> form.email, stage |-> "asked"]
  /\ UNCHANGED <<accounts, user, row, screen, enabled, animation, form, error, profile, restarts, chosen, interrupted>>

PressLogin ==
  /\ FormOpen("login")
  /\ LoginRequested
  /\ UNCHANGED <<accounts, user, row, screen, animation, form, error, profile, restarts, chosen, interrupted>>

(* showSignup() and showLogin().                                           *)
Slide ==
  /\ \/ FormOpen("login") /\ screen' = "signup"
     \/ FormOpen("signup") /\ screen' = "login"
  /\ enabled' = FALSE
  /\ animation' = "sliding"
  /\ UNCHANGED <<accounts, user, row, form, error, attempt, profile, restarts, chosen, interrupted>>

SlideEnds ==
  /\ animation = "sliding"
  /\ \/ animation' = "none" /\ enabled' = TRUE
     \/ animation' = "cut" /\ UNCHANGED enabled
  /\ UNCHANGED <<accounts, user, row, screen, form, error, attempt, profile, restarts, chosen, interrupted>>

(* signupRequested(): a form that fails one of the three tests leaves      *)
(* everything as it is.                                                    *)
PressSignup(e) ==
  /\ FormOpen("signup")
  /\ enabled' = FALSE
  /\ attempt' = [kind |-> "signup", email |-> e, stage |-> "asked"]
  /\ UNCHANGED <<accounts, user, row, screen, animation, form, error, profile, restarts, chosen, interrupted>>

-----------------------------------------------------------------------------
At(kind, stage) == attempt # NoAttempt /\ attempt.kind = kind /\ attempt.stage = stage

Reach(stage) == attempt' = [attempt EXCEPT !.stage = stage]

(* The server: a wrong password and a broken connection are refusals.      *)
Answer ==
  /\ \/ /\ At("login", "asked") /\ attempt.email \in accounts
        /\ Reach("accepted") /\ UNCHANGED accounts
     \/ /\ At("signup", "asked") /\ attempt.email \in Account \ accounts
        /\ Reach("accepted") /\ accounts' = accounts \cup {attempt.email}
     \/ /\ At("login", "asked") \/ At("signup", "asked")
        /\ Reach("refused") /\ UNCHANGED accounts
  /\ UNCHANGED <<user, row, screen, enabled, animation, form, error, profile, restarts, chosen, interrupted>>

(* The Firebase client keeps the session, then calls back.                 *)
SignedIn ==
  /\ At("login", "accepted") \/ At("signup", "accepted")
  /\ Reach("signed in")
  /\ user' = attempt.email
  /\ UNCHANGED <<accounts, row, screen, enabled, animation, form, error, profile, restarts, chosen, interrupted>>

(* Mutant: ServerAPI.login() returns on an error without calling back.     *)
LoginCallbackSilent ==
  /\ \/ At("login", "signed in") /\ SaveLogins(attempt.email, FALSE) /\ Reach("saved")
     \/ At("login", "refused") /\ attempt' = NoAttempt /\ UNCHANGED row
  /\ UNCHANGED <<accounts, user, screen, enabled, animation, form, error, profile, restarts, chosen, interrupted>>

(* Mutant: the login is saved before the error is looked at.               *)
LoginCallbackSavesAll ==
  /\ \/ At("login", "signed in") /\ SaveLogins(attempt.email, FALSE) /\ Reach("saved")
     \/ At("login", "refused") /\ SaveLogins(attempt.email, FALSE) /\ Reach("failed")
  /\ UNCHANGED <<accounts, user, screen, enabled, animation, form, error, profile, restarts, chosen, interrupted>>

(* ServerAPI.login(): saves the login without automatic login and posts    *)
(* the completion of the login screen to the main queue.                   *)
LoginCallback ==
  /\ \/ At("login", "signed in") /\ SaveLogins(attempt.email, FALSE) /\ Reach("saved")
     \/ At("login", "refused") /\ Reach("failed") /\ UNCHANGED row
  /\ UNCHANGED <<accounts, user, screen, enabled, animation, form, error, profile, restarts, chosen, interrupted>>

LoginFailed ==
  /\ At("login", "failed")
  /\ enabled' = TRUE /\ error' = TRUE /\ attempt' = NoAttempt
  /\ UNCHANGED <<accounts, user, row, screen, animation, form, profile, restarts, chosen, interrupted>>

(* Mutant: the completion leaves the choice as ServerAPI saved it.         *)
LoginDoneUnticked ==
  /\ At("login", "saved")
  /\ enabled' = TRUE /\ error' = FALSE /\ attempt' = NoAttempt
  /\ SaveLogins(form.email, FALSE)
  /\ chosen' = IF form.auto THEN form.email ELSE Nobody
  /\ interrupted' = FALSE
  /\ screen' = IF row'.option = 1 THEN "feeds" ELSE "canvas"
  /\ UNCHANGED <<accounts, user, animation, form, profile, restarts>>

(* The completion saves the login again, with the choice, and goes to the  *)
(* screen the settings name.                                               *)
LoginDone ==
  /\ At("login", "saved")
  /\ enabled' = TRUE /\ error' = FALSE /\ attempt' = NoAttempt
  /\ SaveLogins(form.email, form.auto)
  /\ chosen' = IF form.auto THEN form.email ELSE Nobody
  /\ interrupted' = FALSE
  /\ screen' = IF row'.option = 1 THEN "feeds" ELSE "canvas"
  /\ UNCHANGED <<accounts, user, animation, form, profile, restarts>>

SignupCallback ==
  /\ \/ /\ At("signup", "signed in")
        /\ SaveLogins(attempt.email, FALSE)
        /\ chosen' = Nobody /\ interrupted' = FALSE
        /\ screen' = "canvas"
     \/ /\ At("signup", "refused")
        /\ UNCHANGED <<row, chosen, interrupted, screen>>
  /\ enabled' = TRUE /\ attempt' = NoAttempt
  /\ UNCHANGED <<accounts, user, animation, form, error, profile, restarts>>

-----------------------------------------------------------------------------
(* The side menu opens a new screen; ProfileViewController loads the       *)
(* settings into its controls.                                             *)
OpenScreen(s) ==
  /\ screen \in Behind \ {s}
  /\ screen' = s
  /\ profile' = IF s = "profile"
                THEN [alias |-> row.alias, size |-> row.size, option |-> row.option]
                ELSE Defaults
  /\ UNCHANGED <<accounts, user, row, enabled, animation, form, error, attempt, restarts, chosen, interrupted>>

(* updateLocalStorage(): whichever control was used, all three are saved.  *)
EditProfile ==
  /\ screen = "profile"
  /\ \/ \E a \in {user, Nobody} : profile' = [profile EXCEPT !.alias = a]
     \/ \E s \in Size : profile' = [profile EXCEPT !.size = s]
     \/ \E o \in {0, 1} : profile' = [profile EXCEPT !.option = o]
  /\ SaveProfileSettings(profile')
  /\ UNCHANGED <<accounts, user, screen, enabled, animation, form, error, attempt, restarts, chosen, interrupted>>

(* apply() of the canvas's settings popup.                                 *)
ApplySettings(size) ==
  /\ screen = "canvas"
  /\ SaveCanvasSize(size)
  /\ UNCHANGED <<accounts, user, screen, enabled, animation, form, error, attempt, profile, restarts, chosen, interrupted>>

(* Mutant: logging out keeps the automatic login.                          *)
LogoutStillAuto ==
  /\ screen \in Behind
  /\ chosen' = Nobody
  /\ UNCHANGED row
  /\ ShowLoginScreen(row')
  /\ profile' = Defaults
  /\ UNCHANGED <<accounts, user, attempt, restarts, interrupted>>

(* logout() and logoutPressed(): the Firebase session is kept.             *)
Logout ==
  /\ screen \in Behind
  /\ DisableAutoLogin
  /\ chosen' = Nobody
  /\ ShowLoginScreen(row')
  /\ profile' = Defaults
  /\ UNCHANGED <<accounts, user, attempt, restarts, interrupted>>

(* The app is killed and started again.                                    *)
Restart ==
  /\ restarts < MaxRestarts
  /\ restarts' = restarts + 1
  /\ screen' = "launch" /\ enabled' = FALSE /\ animation' = "none"
  /\ form' = NoForm /\ error' = FALSE /\ attempt' = NoAttempt /\ profile' = Defaults
  /\ interrupted' = (interrupted \/ At("login", "saved"))
  /\ UNCHANGED <<accounts, user, row, chosen>>

User ==
  \/ EditForm \/ PressLogin \/ Slide \/ EditProfile \/ Logout \/ Restart
  \/ \E e \in Account : PressSignup(e)
  \/ \E s \in Behind : OpenScreen(s)
  \/ \E size \in Size : ApplySettings(size)

Client == SignedIn \/ LoginCallback \/ LoginFailed \/ LoginDone \/ SignupCallback

Animations == LaunchEnds \/ OpeningEnds \/ SlideEnds

Next == User \/ Client \/ Animations \/ Answer

Spec ==
  /\ Init /\ [][Next]_vars
  /\ WF_vars(Client) /\ WF_vars(Animations) /\ WF_vars(Answer)
-----------------------------------------------------------------------------
(* Type invariant of the session.                                          *)
TypeOK ==
  /\ accounts \in SUBSET Account
  /\ user \in Person
  /\ row \in Row \cup {NoRow}
  /\ screen \in Behind \cup {"launch", "frozen", "login", "signup"}
  /\ enabled \in BOOLEAN
  /\ animation \in {"none", "opening", "sliding", "cut"}
  /\ form \in Form
  /\ error \in BOOLEAN
  /\ attempt \in Attempt \cup {NoAttempt}
  /\ profile \in Settings
  /\ restarts \in 0..MaxRestarts
  /\ chosen \in Person
  /\ interrupted \in BOOLEAN

(* Behind the login there is a row to read (userInfo[0] of LocalStorage)   *)
(* and it names the account under which the screens read and write: that   *)
(* of the Firebase session.                                                *)
StoredIsSession ==
  screen \in Behind => row # NoRow /\ row.username = user /\ user \in Account

(* Whose automatic login is stored.                                        *)
AutoFor == IF row # NoRow /\ row.auto THEN row.username ELSE Nobody

(* The login has been saved once, without its choice, and not yet again.   *)
HalfSaved == At("login", "saved") \/ interrupted

(* The automatic login stored is the one chosen, on every screen and       *)
(* before every start: a choice is out of the row only between the two     *)
(* saves of a login (ServerAPI.login stores that it is off, the completion *)
(* of the login screen what was chosen), or because the app was killed     *)
(* there; and no screen behind the login opens in between.                 *)
ChoiceIsStored ==
  /\ ~HalfSaved => AutoFor = chosen
  /\ screen \in Behind => ~HalfSaved

(* A login that starts by itself is for the account whose last completed   *)
(* login had it ticked and which has not logged out since, wherever the    *)
(* app was killed meanwhile.                                               *)
AutoOnlyIfChosen ==
  [][animation = "opening" /\ attempt' # NoAttempt
       => chosen # Nobody /\ attempt'.email = chosen]_vars

(* What holds in between: the attempt under way has the login screen for   *)
(* itself and leads, save by save, to a row that names its account; the    *)
(* stored choice and the one the form was filled with are the user's.      *)
Underway ==
  attempt # NoAttempt =>
    /\ ~enabled /\ animation = "none"
    /\ attempt.kind = "login" => screen = "login" /\ form.email = attempt.email
    /\ attempt.kind = "signup" => screen = "signup"
    /\ attempt.stage \in {"accepted", "signed in", "saved"} => attempt.email \in Account
    /\ attempt.stage \in {"signed in", "saved"} => user = attempt.email
    /\ attempt.stage = "saved" => row # NoRow /\ row.username = attempt.email

Revocable ==
  /\ row # NoRow /\ row.auto => chosen # Nobody /\ row.username = chosen
  /\ animation = "opening" /\ form.auto => chosen # Nobody /\ form.email = chosen
  /\ animation = "opening" => screen = "login"

(* The inductive invariant of the proofs.                                  *)
IInv == TypeOK /\ StoredIsSession /\ ChoiceIsStored /\ Underway /\ Revocable

(* A login that was chosen starts by itself whenever the app is started,   *)
(* and leads behind the login with the account of the choice, unless the   *)
(* server refuses it, which is said, or the launch animation is cut short. *)
(* It is lost in one way only: the app was killed between the two saves of *)
(* a login, even one that had started by itself.                           *)
Remembered ==
  (screen = "launch" /\ chosen # Nobody /\ ~interrupted)
    ~> (\/ screen \in Behind /\ user = chosen
        \/ screen = "frozen" \/ error \/ interrupted)

(* Every attempt and every slide ends with the login screen enabled or     *)
(* left, unless an animation was cut short.                                *)
Reenabled == ~enabled ~> (enabled \/ screen = "frozen" \/ animation = "cut")
=============================================================================

---------------------------- MODULE SessionProofs ----------------------------
(* Who is logged in: the session's invariant, for every set of accounts    *)
(* and every number of restarts.                                           *)
EXTENDS Session, TLAPS

USE DEF Behind

(* An attempt moved on keeps its kind and account.                         *)
LEMMA ReachIs ==
  ASSUME attempt \in Attempt, NEW stage \in {"accepted", "refused", "signed in", "saved", "failed"},
         Reach(stage)
  PROVE  /\ attempt' \in Attempt /\ attempt' # NoAttempt
         /\ attempt'.kind = attempt.kind /\ attempt'.email = attempt.email
         /\ attempt'.stage = stage
  BY NoAttemptAssumption DEF Attempt, NoAttemptAssumption, Reach

(* What saveLogins() leaves in the row, whatever was there.                *)
LEMMA SavedRow ==
  ASSUME row \in Row \cup {NoRow}, NEW e \in Person, NEW auto \in BOOLEAN, SaveLogins(e, auto)
  PROVE  /\ row' \in Row /\ row' # NoRow
         /\ row'.username = e /\ row'.auto = auto
<1> USE DEF Row, Person, SaveLogins
<1>1. CASE row = NoRow
  <2>1. row' = [username |-> e, auto |-> auto, alias |-> Nobody, size |-> DefaultSize, option |-> 0]
    BY <1>1
  <2>2. row' \in Row
    BY <2>1, SizeAssumption
  <2> QED BY <2>1, <2>2, NoRowAssumption
<1>2. CASE row # NoRow
  <2>1. row' = [row EXCEPT !.username = e, !.auto = auto]
    BY <1>2
  <2>2. row' \in Row
    BY <1>2, <2>1
  <2>3. row'.username = e /\ row'.auto = auto
    BY <1>2, <2>1
  <2> QED BY <2>2, <2>3, NoRowAssumption
<1> QED BY <1>1, <1>2

(* A new login screen is filled in with what is stored, and has no choice  *)
(* ticked that the user did not leave.                                     *)
LEMMA LoginScreenIs ==
  ASSUME NEW stored \in Row \cup {NoRow}, ShowLoginScreen(stored)
  PROVE  /\ form' \in Form
         /\ form'.auto => stored # NoRow /\ stored.auto /\ form'.email = stored.username
<1>1. CASE stored = NoRow
  BY <1>1 DEF ShowLoginScreen, NoForm, Form, Person
<1>2. CASE stored # NoRow
  <2>1. stored.username \in Person /\ stored.auto \in BOOLEAN
    BY <1>2 DEF Row
  <2>2. form' = [email |-> stored.username, auto |-> stored.auto]
    BY <1>2 DEF ShowLoginScreen
  <2> QED BY <1>2, <2>1, <2>2 DEF Form
<1> QED BY <1>1, <1>2

(* An attempt that starts asks for the account given.                      *)
LEMMA StartedIs ==
  ASSUME NEW kind \in {"login", "signup"}, NEW e \in Person,
         attempt' = [kind |-> kind, email |-> e, stage |-> "asked"]
  PROVE  /\ attempt' \in Attempt /\ attempt' # NoAttempt
         /\ attempt'.kind = kind /\ attempt'.email = e /\ attempt'.stage = "asked"
<1>1. attempt' \in Attempt
  BY DEF Attempt
<1> QED BY <1>1, NoAttemptAssumption

(* Where the form can be used or is not there, no attempt is under way.    *)
LEMMA IdleOtherwise ==
  ASSUME IInv, enabled \/ animation # "none" \/ screen \notin {"login", "signup"}
  PROVE  attempt = NoAttempt
<1> SUFFICES ASSUME attempt # NoAttempt PROVE FALSE
  OBVIOUS
<1>1. attempt.kind \in {"login", "signup"}
  BY DEF IInv, TypeOK, Attempt
<1> QED BY <1>1 DEF IInv, Underway

(* A step keeps the stored choice if it leaves the row and the choice      *)
(* alone, completes no login that is half saved, and opens no screen       *)
(* behind the login.                                                       *)
LEMMA ChoiceKept ==
  ASSUME ChoiceIsStored, UNCHANGED <<row, chosen>>, HalfSaved => HalfSaved',
         screen' \in Behind => screen \in Behind /\ (HalfSaved' => HalfSaved)
  PROVE  ChoiceIsStored'
<1>1. AutoFor' = AutoFor
  BY DEF AutoFor
<1> QED BY <1>1 DEF ChoiceIsStored

(* The launch animation opens the login screen or nothing.                 *)
LEMMA LaunchKeeps ==
  ASSUME IInv, LaunchEnds
  PROVE  IInv'
<1> USE DEF IInv
<1>1. CASE ShowLoginScreen(row)
  <2>1. /\ form' \in Form
        /\ form'.auto => row # NoRow /\ row.auto /\ form'.email = row.username
    BY <1>1, LoginScreenIs DEF TypeOK
  <2>2. attempt = NoAttempt
    BY IdleOtherwise DEF LaunchEnds
  <2>3. /\ screen' = "login" /\ enabled' = TRUE /\ animation' = "opening" /\ error' = FALSE
        /\ UNCHANGED <<accounts, user, row, attempt, profile, restarts, chosen, interrupted>>
    BY <1>1 DEF ShowLoginScreen, LaunchEnds
  <2>4. TypeOK'
    BY <2>1, <2>3 DEF TypeOK
  <2>5. Revocable'
    <3>1. row # NoRow /\ row.auto => chosen # Nobody /\ row.username = chosen
      BY DEF Revocable
    <3>2. form'.auto => chosen' # Nobody /\ form'.email = chosen'
      BY <2>1, <2>3, <3>1
    <3>3. row' # NoRow /\ row'.auto => chosen' # Nobody /\ row'.username = chosen'
      BY <2>3, <3>1
    <3> QED BY <2>3, <3>2, <3>3 DEF Revocable
  <2>6. ChoiceIsStored'
    BY <2>3, ChoiceKept DEF HalfSaved, At
  <2> QED BY <2>2, <2>3, <2>4, <2>5, <2>6 DEF StoredIsSession, Underway
<1>2. CASE screen' = "frozen" /\ UNCHANGED <<enabled, animation, form, error>>
  <2>1. TypeOK'
    BY <1>2 DEF LaunchEnds, TypeOK
  <2>2. StoredIsSession' /\ Underway'
    BY <1>2 DEF LaunchEnds, StoredIsSession, Underway
  <2>3. Revocable'
    BY <1>2 DEF LaunchEnds, Revocable
  <2>4. ChoiceIsStored'
    BY <1>2, ChoiceKept DEF LaunchEnds, HalfSaved, At
  <2> QED BY <2>1, <2>2, <2>3, <2>4
<1> QED BY <1>1, <1>2 DEF LaunchEnds

(* The end of the opening animation may start an attempt, for the account  *)
(* whose choice the form was filled in with.                               *)
LEMMA OpeningKeeps ==
  ASSUME IInv, OpeningEnds
  PROVE  IInv'
<1> USE DEF IInv
<1>1. /\ screen = "login" /\ attempt = NoAttempt /\ form.email \in Person
      /\ animation' = "none"
      /\ UNCHANGED <<accounts, user, row, screen, form, error, profile, restarts, chosen, interrupted>>
  BY IdleOtherwise DEF OpeningEnds, Revocable, TypeOK, Form
<1>2. StoredIsSession' /\ ChoiceIsStored' /\ Revocable'
  <2>1. StoredIsSession' /\ Revocable'
    BY <1>1 DEF StoredIsSession, Revocable
  <2>2. ChoiceIsStored'
    BY <1>1, ChoiceKept DEF HalfSaved, At
  <2> QED BY <2>1, <2>2
<1>3. CASE LoginRequested
  <2>1. /\ attempt' \in Attempt /\ attempt' # NoAttempt /\ enabled' = FALSE
        /\ attempt'.kind = "login" /\ attempt'.email = form.email /\ attempt'.stage = "asked"
    BY <1>1, <1>3, StartedIs DEF LoginRequested
  <2>2. TypeOK'
    BY <1>1, <2>1 DEF TypeOK
  <2>3. Underway'
    BY <1>1, <2>1 DEF Underway
  <2> QED BY <1>2, <2>2, <2>3
<1>4. CASE UNCHANGED <<enabled, attempt>>
  BY <1>1, <1>2, <1>4 DEF TypeOK, Underway
<1> QED BY <1>3, <1>4 DEF OpeningEnds

(* The form can be edited only while no attempt is under way.              *)
LEMMA EditKeeps ==
  ASSUME IInv, EditForm
  PROVE  IInv'
<1> USE DEF IInv
<1>1. /\ attempt = NoAttempt /\ animation = "none"
      /\ UNCHANGED <<accounts, user, row, screen, enabled, animation, error, attempt,
                     profile, restarts, chosen, interrupted>>
  BY IdleOtherwise DEF EditForm, FormOpen
<1>2. form' \in Form
  <2>1. CASE \E e \in Person : form' = [form EXCEPT !.email = e]
    BY <2>1 DEF TypeOK, Form
  <2>2. CASE form' = [form EXCEPT !.auto = ~form.auto]
    BY <2>2 DEF TypeOK, Form
  <2> QED BY <2>1, <2>2 DEF EditForm
<1>3. TypeOK'
  BY <1>1, <1>2 DEF TypeOK
<1>4. StoredIsSession' /\ Underway'
  BY <1>1 DEF StoredIsSession, Underway
<1>5. Revocable'
  BY <1>1 DEF Revocable
<1>6. ChoiceIsStored'
  BY <1>1, ChoiceKept DEF HalfSaved, At
<1> QED BY <1>3, <1>4, <1>5, <1>6

(* Both buttons start an attempt on a disabled screen.                     *)
LEMMA PressKeeps ==
  ASSUME IInv, PressLogin \/ (\E e \in Account : PressSignup(e))
  PROVE  IInv'
<1> USE DEF IInv
<1>1. PICK kind \in {"login", "signup"}, e \in Person :
        /\ screen = kind /\ attempt' = [kind |-> kind, email |-> e, stage |-> "asked"]
        /\ kind = "login" => form.email = e
  BY DEF PressLogin, LoginRequested, PressSignup, FormOpen, TypeOK, Form, Person
<1>2. /\ enabled' = FALSE /\ animation = "none"
      /\ UNCHANGED <<accounts, user, row, screen, animation, form, error, profile, restarts, chosen, interrupted>>
  BY DEF PressLogin, LoginRequested, PressSignup, FormOpen
<1>3. /\ attempt' \in Attempt /\ attempt' # NoAttempt
      /\ attempt'.kind = kind /\ attempt'.email = e /\ attempt'.stage = "asked"
  BY <1>1, StartedIs
<1>4. TypeOK'
  BY <1>2, <1>3 DEF TypeOK
<1>5. Underway'
  BY <1>1, <1>2, <1>3 DEF Underway
<1>6. StoredIsSession' /\ Revocable'
  BY <1>2 DEF StoredIsSession, Revocable
<1>7. attempt = NoAttempt
  BY IdleOtherwise DEF PressLogin, PressSignup, FormOpen
<1>8. ChoiceIsStored'
  BY <1>2, <1>3, <1>7, ChoiceKept DEF HalfSaved, At
<1> QED BY <1>4, <1>5, <1>6, <1>8

(* The slides between the two forms happen without an attempt.             *)
LEMMA SlideKeeps ==
  ASSUME IInv, Slide \/ SlideEnds
  PROVE  IInv'
<1> USE DEF IInv
<1>1. /\ attempt = NoAttempt /\ animation' \in {"none", "sliding", "cut"} /\ enabled' \in BOOLEAN
      /\ screen' \in {screen, "login", "signup"}
      /\ UNCHANGED <<accounts, user, row, form, error, attempt, profile, restarts, chosen, interrupted>>
  BY IdleOtherwise DEF Slide, SlideEnds, FormOpen, TypeOK
<1>2. TypeOK'
  BY <1>1 DEF TypeOK
<1>3. StoredIsSession' /\ Underway'
  BY <1>1 DEF StoredIsSession, Underway
<1>4. Revocable'
  BY <1>1 DEF Revocable
<1>5. ChoiceIsStored'
  BY <1>1, ChoiceKept DEF HalfSaved, At
<1> QED BY <1>2, <1>3, <1>4, <1>5

(* The server's answer and the session it opens move the attempt on.       *)
LEMMA AnswerKeeps ==
  ASSUME IInv, Answer \/ SignedIn
  PROVE  IInv'
<1> USE DEF IInv
<1>1. /\ attempt \in Attempt /\ attempt # NoAttempt /\ ~At("login", "saved")
      /\ UNCHANGED <<row, screen, enabled, animation, form, error, profile, restarts, chosen, interrupted>>
  BY DEF Answer, SignedIn, At, TypeOK
<1>2. PICK stage \in {"accepted", "refused", "signed in"} :
        /\ Reach(stage)
        /\ stage # "refused" => attempt.email \in Account
        /\ IF stage = "signed in" THEN user' = attempt.email ELSE UNCHANGED user
        /\ accounts' \in {accounts, accounts \cup {attempt.email}}
        /\ accounts' # accounts => attempt.email \in Account
  BY DEF Answer, SignedIn, At, TypeOK, Underway
<1>3. /\ attempt' \in Attempt /\ attempt' # NoAttempt
      /\ attempt'.kind = attempt.kind /\ attempt'.email = attempt.email /\ attempt'.stage = stage
  BY <1>1, <1>2, ReachIs
<1>4. TypeOK'
  BY <1>1, <1>2, <1>3 DEF TypeOK, Person
<1>5. screen \notin Behind
  BY <1>1 DEF Underway, Attempt
<1>6. StoredIsSession' /\ ChoiceIsStored'
  <2>1. StoredIsSession'
    BY <1>1, <1>5 DEF StoredIsSession
  <2>2. ChoiceIsStored'
    BY <1>1, <1>5, ChoiceKept DEF HalfSaved
  <2> QED BY <2>1, <2>2
<1>7. Underway'
  BY <1>1, <1>2, <1>3 DEF Underway
<1>8. Revocable'
  BY <1>1 DEF Revocable
<1> QED BY <1>4, <1>6, <1>7, <1>8

(* The first save of a login names the account of the session; nothing is  *)
(* on display behind the login yet.                                        *)
LEMMA CallbackKeeps ==
  ASSUME IInv, LoginCallback
  PROVE  IInv'
<1> USE DEF IInv
<1>1. /\ attempt \in Attempt /\ attempt # NoAttempt /\ attempt.kind = "login"
      /\ UNCHANGED <<accounts, user, screen, enabled, animation, form, error, profile, restarts, chosen, interrupted>>
  BY DEF LoginCallback, At, TypeOK
<1>2. screen = "login" /\ animation = "none" /\ attempt.email \in Person
  BY <1>1 DEF Underway, Attempt
<1>3. StoredIsSession'
  BY <1>1, <1>2 DEF StoredIsSession
<1>4. CASE At("login", "signed in") /\ SaveLogins(attempt.email, FALSE) /\ Reach("saved")
  <2>1. /\ row' \in Row /\ row' # NoRow /\ row'.username = attempt.email /\ row'.auto = FALSE
    BY <1>2, <1>4, SavedRow DEF TypeOK
  <2>2. /\ attempt' \in Attempt /\ attempt' # NoAttempt
        /\ attempt'.kind = attempt.kind /\ attempt'.email = attempt.email /\ attempt'.stage = "saved"
    BY <1>1, <1>4, ReachIs
  <2>3. TypeOK'
    BY <1>1, <2>1, <2>2 DEF TypeOK
  <2>4. Underway'
    BY <1>1, <1>4, <2>1, <2>2 DEF Underway, At
  <2>5. Revocable'
    BY <1>1, <1>2, <2>1 DEF Revocable
  <2>6. ChoiceIsStored'
    BY <1>1, <1>2, <2>2 DEF ChoiceIsStored, HalfSaved, At
  <2> QED BY <1>3, <2>3, <2>4, <2>5, <2>6
<1>5. CASE At("login", "refused") /\ Reach("failed") /\ UNCHANGED row
  <2>1. /\ attempt' \in Attempt /\ attempt' # NoAttempt
        /\ attempt'.kind = attempt.kind /\ attempt'.email = attempt.email /\ attempt'.stage = "failed"
    BY <1>1, <1>5, ReachIs
  <2>2. TypeOK'
    BY <1>1, <1>5, <2>1 DEF TypeOK
  <2>3. Underway'
    BY <1>1, <2>1 DEF Underway
  <2>4. Revocable'
    BY <1>1, <1>5 DEF Revocable
  <2>5. ChoiceIsStored'
    BY <1>1, <1>2, <1>5, ChoiceKept DEF HalfSaved, At
  <2> QED BY <1>3, <2>2, <2>3, <2>4, <2>5
<1> QED BY <1>4, <1>5 DEF LoginCallback

(* The second save keeps the account and adds the choice.                  *)
LEMMA DoneKeeps ==
  ASSUME IInv, LoginDone
  PROVE  IInv'
<1> USE DEF IInv
<1>1. /\ attempt \in Attempt /\ attempt # NoAttempt
      /\ attempt.kind = "login" /\ attempt.stage = "saved"
  BY DEF LoginDone, At, TypeOK
<1>2. /\ animation = "none" /\ form.email = attempt.email /\ attempt.email \in Account
      /\ user = attempt.email
  BY <1>1 DEF Underway
<1>3. form.auto \in BOOLEAN /\ form.email \in Person
  BY DEF TypeOK, Form
<1>4. /\ row' \in Row /\ row' # NoRow /\ row'.username = form.email /\ row'.auto = form.auto
  BY <1>3, SavedRow DEF LoginDone, TypeOK
<1>5. /\ screen' \in {"feeds", "canvas"} /\ enabled' = TRUE /\ error' = FALSE /\ attempt' = NoAttempt
      /\ interrupted' = FALSE
      /\ UNCHANGED <<accounts, user, animation, form, profile, restarts>>
  BY DEF LoginDone
<1>6. form.email # Nobody
  BY <1>2, NobodyAssumption
<1>7. CASE form.auto
  <2>1. chosen' = form.email /\ row'.auto
    BY <1>4, <1>7 DEF LoginDone
  <2>2. TypeOK'
    BY <1>3, <1>4, <1>5, <2>1 DEF TypeOK
  <2>3. StoredIsSession' /\ Underway'
    BY <1>2, <1>4, <1>5 DEF StoredIsSession, Underway
  <2>4. ChoiceIsStored'
    BY <1>4, <1>5, <2>1 DEF ChoiceIsStored, AutoFor, HalfSaved, At
  <2>5. Revocable'
    BY <1>2, <1>4, <1>5, <1>6, <2>1 DEF Revocable
  <2> QED BY <2>2, <2>3, <2>4, <2>5
<1>8. CASE ~form.auto
  <2>1. chosen' = Nobody /\ ~row'.auto
    BY <1>4, <1>8 DEF LoginDone
  <2>2. TypeOK'
    BY <1>3, <1>4, <1>5, <2>1 DEF TypeOK, Person
  <2>3. StoredIsSession' /\ Underway'
    BY <1>2, <1>4, <1>5 DEF StoredIsSession, Underway
  <2>4. ChoiceIsStored'
    BY <1>5, <2>1 DEF ChoiceIsStored, AutoFor, HalfSaved, At
  <2>5. Revocable'
    BY <1>2, <1>5, <2>1 DEF Revocable
  <2> QED BY <2>2, <2>3, <2>4, <2>5
<1> QED BY <1>7, <1>8

(* A failed login gives the form back.                                     *)
LEMMA FailedKeeps ==
  ASSUME IInv, LoginFailed
  PROVE  IInv'
<1> USE DEF IInv
<1>1. TypeOK' /\ StoredIsSession' /\ Underway'
  BY DEF LoginFailed, TypeOK, StoredIsSession, Underway
<1>2. Revocable'
  BY DEF LoginFailed, Revocable
<1>3. ChoiceIsStored'
  BY ChoiceKept DEF LoginFailed, HalfSaved, At
<1> QED BY <1>1, <1>2, <1>3

(* A signup saves its account without a choice, and revokes the last one.  *)
LEMMA SignupKeeps ==
  ASSUME IInv, SignupCallback
  PROVE  IInv'
<1> USE DEF IInv
<1>1. /\ attempt \in Attempt /\ attempt # NoAttempt /\ attempt.kind = "signup"
      /\ enabled' = TRUE /\ attempt' = NoAttempt
      /\ UNCHANGED <<accounts, user, animation, form, error, profile, restarts>>
  BY DEF SignupCallback, At, TypeOK
<1>2. animation = "none" /\ screen = "signup" /\ attempt.email \in Person
  BY <1>1 DEF Underway, Attempt
<1>3. Underway'
  BY <1>1 DEF Underway
<1>4. CASE attempt.stage = "signed in" /\ SaveLogins(attempt.email, FALSE)
             /\ chosen' = Nobody /\ interrupted' = FALSE /\ screen' = "canvas"
  <2>1. user = attempt.email /\ attempt.email \in Account
    BY <1>1, <1>4 DEF Underway
  <2>2. /\ row' \in Row /\ row' # NoRow /\ row'.username = attempt.email /\ row'.auto = FALSE
    BY <1>2, <1>4, SavedRow DEF TypeOK
  <2>3. TypeOK'
    BY <1>1, <1>4, <2>2 DEF TypeOK, Person
  <2>4. StoredIsSession'
    BY <1>1, <2>1, <2>2 DEF StoredIsSession
  <2>5. ChoiceIsStored'
    BY <1>1, <1>4, <2>2 DEF ChoiceIsStored, AutoFor, HalfSaved, At
  <2>6. Revocable'
    BY <1>1, <1>2, <2>2 DEF Revocable
  <2> QED BY <1>3, <2>3, <2>4, <2>5, <2>6
<1>5. CASE UNCHANGED <<row, chosen, interrupted, screen>>
  <2>1. TypeOK' /\ StoredIsSession'
    BY <1>1, <1>2, <1>5 DEF TypeOK, StoredIsSession
  <2>2. Revocable'
    BY <1>1, <1>5 DEF Revocable
  <2>3. ChoiceIsStored'
    BY <1>1, <1>2, <1>5, ChoiceKept DEF HalfSaved, At
  <2> QED BY <1>3, <2>1, <2>2, <2>3
<1> QED BY <1>4, <1>5 DEF SignupCallback, At

(* The screens behind the login change the settings of the row only.       *)
LEMMA SettingsKeep ==
  ASSUME IInv, EditProfile \/ (\E size \in Size : ApplySettings(size))
               \/ (\E s \in Behind : OpenScreen(s))
  PROVE  IInv'
<1> USE DEF IInv
<1>1. /\ screen \in Behind /\ screen' \in Behind /\ row \in Row /\ row # NoRow
      /\ UNCHANGED <<accounts, user, enabled, animation, form, error, attempt, restarts, chosen, interrupted>>
  BY DEF EditProfile, ApplySettings, OpenScreen, StoredIsSession, TypeOK
<1>2. attempt = NoAttempt
  BY <1>1, IdleOtherwise
<1>3. profile' \in Settings
  <2>1. CASE EditProfile
    BY <2>1 DEF EditProfile, TypeOK, Settings, Person
  <2>2. CASE \E size \in Size : ApplySettings(size)
    BY <2>2 DEF ApplySettings, TypeOK
  <2>3. CASE \E s \in Behind : OpenScreen(s)
    BY <1>1, <2>3, SizeAssumption DEF OpenScreen, Settings, Row, Defaults, Person
  <2> QED BY <2>1, <2>2, <2>3
<1>4. row' \in Row /\ row'.username = row.username /\ row'.auto = row.auto
  <2>1. CASE EditProfile
    <3>1. row' = [row EXCEPT !.alias = profile'.alias, !.size = profile'.size, !.option = profile'.option]
      BY <1>1, <2>1 DEF EditProfile, SaveProfileSettings
    <3>2. profile'.alias \in Person /\ profile'.size \in Size /\ profile'.option \in {0, 1}
      BY <1>3 DEF Settings
    <3> QED BY <1>1, <3>1, <3>2 DEF Row
  <2>2. CASE \E size \in Size : ApplySettings(size)
    <3>1. PICK size \in Size : row' = [row EXCEPT !.size = size]
      BY <1>1, <2>2 DEF ApplySettings, SaveCanvasSize
    <3> QED BY <1>1, <3>1 DEF Row
  <2>3. CASE \E s \in Behind : OpenScreen(s)
    BY <1>1, <2>3 DEF OpenScreen
  <2> QED BY <2>1, <2>2, <2>3
<1>5. TypeOK'
  BY <1>1, <1>3, <1>4 DEF TypeOK
<1>6. StoredIsSession' /\ Underway'
  BY <1>1, <1>2, <1>4, NoRowAssumption DEF StoredIsSession, Underway
<1>7. ChoiceIsStored'
  <2>1. AutoFor' = AutoFor
    BY <1>1, <1>4, NoRowAssumption DEF AutoFor
  <2> QED BY <1>1, <2>1 DEF ChoiceIsStored, HalfSaved, At
<1>8. Revocable'
  <2>1. row'.auto => chosen # Nobody /\ row'.username = chosen
    BY <1>1, <1>4 DEF Revocable
  <2> QED BY <1>1, <2>1 DEF Revocable
<1> QED BY <1>5, <1>6, <1>7, <1>8

(* Logging out leaves no choice, in the row or in the new login screen.    *)
LEMMA LogoutKeeps ==
  ASSUME IInv, Logout
  PROVE  IInv'
<1> USE DEF IInv
<1>1. /\ screen \in Behind /\ row \in Row /\ attempt = NoAttempt
      /\ row' = [row EXCEPT !.auto = FALSE]
      /\ screen' = "login" /\ enabled' = TRUE /\ animation' = "opening" /\ error' = FALSE
      /\ chosen' = Nobody /\ profile' = Defaults
      /\ UNCHANGED <<accounts, user, attempt, restarts, interrupted>>
  BY IdleOtherwise DEF Logout, DisableAutoLogin, ShowLoginScreen, StoredIsSession, TypeOK
<1>2. row' \in Row /\ row'.auto = FALSE
  BY <1>1 DEF Row
<1>3. form' \in Form /\ ~form'.auto
  BY <1>2, LoginScreenIs DEF Logout
<1>4. Defaults \in Settings
  BY SizeAssumption DEF Defaults, Settings, Person
<1>5. TypeOK'
  BY <1>1, <1>2, <1>3, <1>4 DEF TypeOK, Person
<1>6. StoredIsSession' /\ Underway'
  BY <1>1 DEF StoredIsSession, Underway
<1>7. Revocable'
  BY <1>1, <1>2, <1>3 DEF Revocable
<1>8. ChoiceIsStored'
  BY <1>1, <1>2 DEF ChoiceIsStored, AutoFor
<1> QED BY <1>5, <1>6, <1>7, <1>8

(* A restart keeps the session and the row, and nothing behind the login.  *)
LEMMA RestartKeeps ==
  ASSUME IInv, Restart
  PROVE  IInv'
<1> USE DEF IInv
<1>1. NoForm \in Form /\ Defaults \in Settings
  BY SizeAssumption DEF NoForm, Form, Defaults, Settings, Person
<1>2. restarts' \in 0..MaxRestarts
  BY RestartsAssumption DEF Restart, TypeOK
<1>3. TypeOK'
  BY <1>1, <1>2 DEF Restart, TypeOK
<1>4. StoredIsSession' /\ Underway'
  BY DEF Restart, StoredIsSession, Underway
<1>5. Revocable'
  BY DEF Restart, Revocable
<1>6. ChoiceIsStored'
  BY ChoiceKept DEF Restart, HalfSaved
<1> QED BY <1>3, <1>4, <1>5, <1>6

(* The inductive invariant: an attempt leads, save by save, to a row that  *)
(* names the account of the Firebase session, whatever is killed when.     *)
THEOREM Invariance == Spec => []IInv
<1>1. Init => IInv
  <2> SUFFICES ASSUME Init PROVE IInv
    OBVIOUS
  <2>1. NoForm \in Form /\ Defaults \in Settings
    BY SizeAssumption DEF NoForm, Form, Defaults, Settings, Person
  <2>2. restarts \in 0..MaxRestarts
    BY RestartsAssumption DEF Init
  <2>3. TypeOK
    BY <2>1, <2>2 DEF Init, TypeOK, Person
  <2> QED BY <2>3 DEF Init, IInv, StoredIsSession, ChoiceIsStored, AutoFor, Underway, Revocable
<1>2. IInv /\ [Next]_vars => IInv'
  <2> SUFFICES ASSUME IInv, [Next]_vars PROVE IInv'
    OBVIOUS
  <2>1. CASE User
    BY <2>1, EditKeeps, PressKeeps, SlideKeeps, SettingsKeep, LogoutKeeps, RestartKeeps DEF User
  <2>2. CASE Client
    BY <2>2, AnswerKeeps, CallbackKeeps, FailedKeeps, DoneKeeps, SignupKeeps DEF Client
  <2>3. CASE Animations
    BY <2>3, LaunchKeeps, OpeningKeeps, SlideKeeps DEF Animations
  <2>4. CASE Answer
    BY <2>4, AnswerKeeps
  <2>5. CASE UNCHANGED vars
    <3>1. TypeOK' /\ StoredIsSession' /\ Underway'
      BY <2>5 DEF vars, IInv, TypeOK, StoredIsSession, Underway
    <3>2. Revocable'
      BY <2>5 DEF vars, IInv, Revocable
    <3>3. ChoiceIsStored'
      BY <2>5, ChoiceKept DEF vars, IInv, HalfSaved, At
    <3> QED BY <3>1, <3>2, <3>3 DEF IInv
  <2> QED BY <2>1, <2>2, <2>3, <2>4, <2>5 DEF Next
<1> QED BY <1>1, <1>2, PTL DEF Spec

(* Behind the login the stored account is that of the Firebase session, so *)
(* that the forced reads of LocalStorage find a row and the name shown is  *)
(* that of the account under which the works are read and written.         *)
THEOREM LoginIsSession == Spec => []StoredIsSession
<1>1. IInv => StoredIsSession
  BY DEF IInv
<1> QED BY <1>1, Invariance, PTL

(* The choice of an automatic login is stored as it was made, on every     *)
(* screen and before every start, for all that each login stores it twice: *)
(* it is out of the row only between the two saves of a login, or because  *)
(* the app was killed there, and never behind the login.                   *)
THEOREM ChoiceStays == Spec => []ChoiceIsStored
<1>1. IInv => ChoiceIsStored
  BY DEF IInv
<1> QED BY <1>1, Invariance, PTL

(* The app logs in by itself only to the account whose choice that was and *)
(* that has not logged out since.                                          *)
THEOREM AutoIsChosen == Spec => AutoOnlyIfChosen
<1>1. IInv /\ [Next]_vars =>
        [animation = "opening" /\ attempt' # NoAttempt
           => chosen # Nobody /\ attempt'.email = chosen]_vars
  <2> SUFFICES ASSUME IInv, [Next]_vars, animation = "opening", attempt' # NoAttempt, ~UNCHANGED vars
               PROVE  chosen # Nobody /\ attempt'.email = chosen
    OBVIOUS
  <2>1. attempt = NoAttempt /\ screen = "login"
    BY IdleOtherwise DEF IInv, Revocable
  <2>2. ~(Client \/ Answer)
    BY <2>1 DEF Client, Answer, SignedIn, LoginCallback, LoginFailed, LoginDone, SignupCallback, At
  <2>3. ~User
    <3>1. ~EditForm /\ ~PressLogin /\ ~Slide /\ ~(\E e \in Account : PressSignup(e))
      BY DEF EditForm, PressLogin, Slide, PressSignup, FormOpen
    <3>2. ~EditProfile /\ ~Logout /\ ~(\E s \in Behind : OpenScreen(s))
          /\ ~(\E size \in Size : ApplySettings(size))
      BY <2>1 DEF EditProfile, Logout, OpenScreen, ApplySettings
    <3>3. ~Restart
      BY DEF Restart
    <3> QED BY <3>1, <3>2, <3>3 DEF User
  <2>4. OpeningEnds /\ form.auto /\ LoginRequested
    BY <2>1, <2>2, <2>3 DEF Next, Animations, LaunchEnds, OpeningEnds, SlideEnds
  <2>5. attempt'.email = form.email
    BY <2>4 DEF LoginRequested
  <2> QED BY <2>4, <2>5 DEF IInv, Revocable
<1> QED BY <1>1, Invariance, PTL DEF Spec, AutoOnlyIfChosen
=============================================================================

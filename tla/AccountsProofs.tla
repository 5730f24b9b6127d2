---------------------------- MODULE AccountsProofs ----------------------------
(***************************************************************************)
(* Theorems about Accounts, for any registrations, emails and number of    *)
(* starts.                                                                 *)
(***************************************************************************)
EXTENDS Accounts, TLAPS

(* Requests are in progress only while the application runs.               *)
RequestsNeedWeb ==
    web # "running" =>
        \A r \in Registrations :
            request[r] \notin {"checked", "created", "saved"}

(* What BotUserCreator relies on when it adds the chat user.               *)
BotIdentityOrTaken ==
    web = "adding" /\ Bot \notin identities =>
        \E r \in identities \ {Bot} : email[r] = BotEmail

BotInv == BotIdentityOrTaken /\ BotIsThere /\ FailsOnlyIfEmailTaken

IInv ==
    /\ TypeOK
    /\ RequestsNeedWeb
    /\ AccountsAreWhole
    /\ EmailsAreDistinct
    /\ BotInv

-----------------------------------------------------------------------------
LEMMA InitInv == Init => IInv
<1> SUFFICES ASSUME Init PROVE IInv
  OBVIOUS
<1> USE DEF Init
<1>1. TypeOK
  <2>1. Bot \in Accounts /\ email \in [Accounts -> Emails]
    BY BotEmailAssumption DEF Accounts
  <2>2. email[Bot] = BotEmail
    BY <2>1
  <2>3. starts \in 0 .. MaxStarts
    BY StartsAssumption
  <2> QED BY <2>1, <2>2, <2>3 DEF TypeOK
<1>2. RequestsNeedWeb /\ AccountsAreWhole
  BY DEF RequestsNeedWeb, AccountsAreWhole
<1>3. Inserting = {}
  BY DEF Inserting
<1>4. EmailsAreDistinct
  BY <1>3 DEF EmailsAreDistinct
<1>5. BotInv
  BY DEF BotInv, BotIdentityOrTaken, BotIsThere, FailsOnlyIfEmailTaken
<1> QED BY <1>1, <1>2, <1>4, <1>5 DEF IInv

(* A registration that has not begun has no row and no transaction.        *)
LEMMA RegisterInv ==
    ASSUME IInv, NEW r \in Registrations, NEW e \in Emails, Register(r, e)
    PROVE  IInv'
<1> USE BotAssumption DEF IInv, Register, Goes, process, rows
<1>1. r \in Accounts /\ r # Bot
  BY DEF Accounts
<1>2. TypeOK'
  BY <1>1 DEF TypeOK
<1>3. r \notin identities \cup Inserting
  BY <1>1 DEF AccountsAreWhole, Inserting
<1>4. identities' \cup Inserting' = identities \cup Inserting
  BY DEF Inserting, TypeOK
<1>5. \A a \in identities \cup Inserting : email'[a] = email[a] /\ a \in Accounts
  BY <1>3 DEF TypeOK, Inserting, Accounts
<1>6. EmailsAreDistinct'
  BY <1>4, <1>5 DEF EmailsAreDistinct
<1>7. AccountsAreWhole'
  BY DEF AccountsAreWhole, TypeOK
<1>8. RequestsNeedWeb' /\ BotInv'
  BY DEF RequestsNeedWeb, BotInv, BotIdentityOrTaken, BotIsThere,
         FailsOnlyIfEmailTaken
<1> QED BY <1>2, <1>6, <1>7, <1>8

(* An insert that does not wait finds its email with nobody else.          *)
LEMMA CreateIdentityInv ==
    ASSUME IInv, NEW r \in Registrations, CreateIdentity(r)
    PROVE  IInv'
<1> USE BotAssumption DEF IInv, CreateIdentity, Goes, process, SavedInTransaction
<1>1. TypeOK'
  BY DEF TypeOK
<1>2. web = "running" /\ identities' = identities
  BY DEF RequestsNeedWeb
<1>3. RequestsNeedWeb' /\ BotInv'
  BY <1>2 DEF RequestsNeedWeb, BotInv, BotIdentityOrTaken, BotIsThere,
              FailsOnlyIfEmailTaken
<1>4. AccountsAreWhole'
  BY <1>2 DEF AccountsAreWhole, TypeOK
<1>5. EmailsAreDistinct'
  <2>1. CASE request'[r] = "created" /\ ~Taken(email[r])
    <3>1. Inserting' = Inserting \cup {r}
      BY <2>1 DEF Inserting, TypeOK
    <3>2. \A a \in identities \cup (Inserting \ {r}) : email[a] # email[r]
      BY <2>1 DEF Taken, WaitsForAnother
    <3> QED BY <1>2, <3>1, <3>2 DEF EmailsAreDistinct
  <2>2. CASE request' = [request EXCEPT ![r] = "failed"]
    <3>1. Inserting' \subseteq Inserting
      BY <2>2 DEF Inserting, TypeOK
    <3> QED BY <1>2, <3>1 DEF EmailsAreDistinct
  <2> QED BY <2>1, <2>2 DEF TypeOK
<1> QED BY <1>1, <1>3, <1>4, <1>5

LEMMA SaveChatUserInv ==
    ASSUME IInv, NEW r \in Registrations, SaveChatUser(r)
    PROVE  IInv'
<1> USE BotAssumption DEF IInv, SaveChatUser, Goes, process, rows
<1>1. TypeOK'
  BY DEF TypeOK
<1>2. web = "running"
  BY DEF RequestsNeedWeb
<1>3. RequestsNeedWeb' /\ BotInv'
  BY <1>2 DEF RequestsNeedWeb, BotInv, BotIdentityOrTaken, BotIsThere,
              FailsOnlyIfEmailTaken
<1>4. AccountsAreWhole'
  BY DEF AccountsAreWhole, TypeOK
<1>5. Inserting' \subseteq Inserting
  BY DEF Inserting, TypeOK
<1>6. EmailsAreDistinct'
  BY <1>5 DEF EmailsAreDistinct
<1> QED BY <1>1, <1>3, <1>4, <1>6

(* The rows of a transaction appear together.                              *)
LEMMA CommitInv ==
    ASSUME IInv, NEW r \in Registrations, Commit(r)
    PROVE  IInv'
<1> USE BotAssumption DEF IInv, Commit, Goes, process, rows
<1>1. r \in Accounts /\ r # Bot
  BY DEF Accounts
<1>2. TypeOK'
  BY <1>1 DEF TypeOK
<1>3. web = "running"
  BY DEF RequestsNeedWeb
<1>4. RequestsNeedWeb' /\ BotInv'
  BY <1>3 DEF RequestsNeedWeb, BotInv, BotIdentityOrTaken, BotIsThere,
              FailsOnlyIfEmailTaken
<1>5. AccountsAreWhole'
  BY <1>1 DEF AccountsAreWhole, TypeOK
<1>6. identities' \cup Inserting' \subseteq identities \cup Inserting
  BY DEF Inserting, TypeOK
<1>7. EmailsAreDistinct'
  BY <1>6 DEF EmailsAreDistinct
<1> QED BY <1>2, <1>4, <1>5, <1>7

(* BotUserCreator runs when no request does.                               *)
LEMMA CreateBotIdentityInv ==
    ASSUME IInv, CreateBotIdentity
    PROVE  IInv'
<1> USE BotAssumption DEF IInv, CreateBotIdentity, BotId, ResultIgnored
<1>1. TypeOK'
  BY DEF TypeOK, Accounts
<1>2. Inserting = {} /\ Inserting' = {}
  BY DEF RequestsNeedWeb, Inserting
<1>3. RequestsNeedWeb' /\ AccountsAreWhole'
  BY DEF RequestsNeedWeb, AccountsAreWhole
<1>4. EmailsAreDistinct'
  <2>1. CASE ~Taken(BotEmail) /\ identities' = identities \cup {Bot}
    <3>1. \A a \in identities : email[a] # email[Bot]
      BY <2>1 DEF Taken, TypeOK
    <3> QED BY <2>1, <3>1, <1>2 DEF EmailsAreDistinct
  <2>2. CASE UNCHANGED identities
    BY <2>2, <1>2 DEF EmailsAreDistinct
  <2> QED BY <2>1, <2>2
<1>5. BotIdentityOrTaken'
  BY DEF BotIdentityOrTaken, Taken
<1>6. BotInv'
  BY <1>5 DEF BotInv, BotIsThere, FailsOnlyIfEmailTaken
<1> QED BY <1>1, <1>3, <1>4, <1>6

(* StartWeb, CheckBot, SaveBotChatUser and StopWeb leave the identities    *)
(* and every email as they are.                                            *)
LEMMA ProcessInv ==
    ASSUME IInv, StartWeb \/ CheckBot \/ SaveBotChatUser \/ StopWeb
    PROVE  IInv'
<1> USE BotAssumption DEF IInv, rows
<1>1. UNCHANGED <<identities, email>>
  BY DEF StartWeb, CheckBot, SaveBotChatUser, StopWeb
<1>2. TypeOK'
  BY StartsAssumption
     DEF TypeOK, StartWeb, CheckBot, SaveBotChatUser, StopWeb, HasIdentity
<1>3. RequestsNeedWeb'
  BY DEF RequestsNeedWeb, StartWeb, CheckBot, SaveBotChatUser, StopWeb
<1>4. \A r \in Registrations : request'[r] = "ok" <=> request[r] = "ok"
  BY DEF StartWeb, CheckBot, SaveBotChatUser, StopWeb
<1>5. chatUsers' \ {Bot} = chatUsers \ {Bot}
  BY DEF StartWeb, CheckBot, SaveBotChatUser, StopWeb
<1>6. AccountsAreWhole'
  BY <1>1, <1>4, <1>5 DEF AccountsAreWhole
<1>7. Inserting' \subseteq Inserting
  BY DEF Inserting, StartWeb, CheckBot, SaveBotChatUser, StopWeb
<1>8. EmailsAreDistinct'
  BY <1>1, <1>7 DEF EmailsAreDistinct
<1>9. BotInv'
  BY DEF BotInv, BotIdentityOrTaken, BotIsThere, FailsOnlyIfEmailTaken,
         StartWeb, CheckBot, SaveBotChatUser, StopWeb, HasIdentity
<1> QED BY <1>2, <1>3, <1>6, <1>8, <1>9

LEMMA NextInv == IInv /\ [Next]_vars => IInv'
<1> SUFFICES ASSUME IInv, [Next]_vars PROVE IInv'
  OBVIOUS
<1>1. CASE UNCHANGED vars
  BY <1>1 DEF IInv, TypeOK, RequestsNeedWeb, AccountsAreWhole,
     EmailsAreDistinct, Inserting, BotInv, BotIdentityOrTaken, BotIsThere,
     FailsOnlyIfEmailTaken, vars, rows, process
<1>2. CASE Next
  BY <1>2, RegisterInv, CreateIdentityInv, SaveChatUserInv, CommitInv,
     CreateBotIdentityInv, ProcessInv DEF Next
<1> QED BY <1>1, <1>2

LEMMA Inductive == Spec => []IInv
<1>1. Init => IInv
  BY InitInv
<1>2. IInv /\ [Next]_vars => IInv'
  BY NextInv
<1> QED BY <1>1, <1>2, PTL DEF Spec

-----------------------------------------------------------------------------
(* Every variable keeps its type, and a chat user has its identity user.   *)
THEOREM TypeCorrect == Spec => []TypeOK
<1>1. IInv => TypeOK
  BY DEF IInv
<1> QED BY <1>1, Inductive, PTL

(* The two rows of a registration appear together, and only if it is       *)
(* answered with success.                                                  *)
THEOREM RowsAppearTogether == Spec => []AccountsAreWhole
<1>1. IInv => AccountsAreWhole
  BY DEF IInv
<1> QED BY <1>1, Inductive, PTL

(* No two accounts have the same email, however registrations interleave.  *)
THEOREM EmailsStayDistinct == Spec => []EmailsAreDistinct
<1>1. IInv => EmailsAreDistinct
  BY DEF IInv
<1> QED BY <1>1, Inductive, PTL

(* After any number of interrupted starts, the application runs only with  *)
(* the bot's account complete.                                             *)
THEOREM BotIsCompleted == Spec => []BotIsThere
<1>1. IInv => BotIsThere
  BY DEF IInv, BotInv
<1> QED BY <1>1, Inductive, PTL

(* A start fails only where a user holds the bot's email.                  *)
THEOREM StartsFailOnlyForTheEmail == Spec => []FailsOnlyIfEmailTaken
<1>1. IInv => FailsOnlyIfEmailTaken
  BY DEF IInv, BotInv
<1> QED BY <1>1, Inductive, PTL
=============================================================================

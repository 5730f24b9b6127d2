------------------------------- MODULE Accounts -------------------------------
(***************************************************************************)
(* The accounts of the web application: an identity user to log in with    *)
(* and a chat user to talk as, in two tables.  CreateChatUserHandler makes *)
(* both in one transaction, each with a save of its own; BotUserCreator    *)
(* makes those of the bot when the application starts, in two transactions *)
(* and in some environments only.                                          *)
(*                                                                         *)
(* Emails are equal when they are equal up to case.  The rows of a         *)
(* transaction that has not been committed show in nothing but the unique  *)
(* index on the email, where another insert waits for them.                *)
(***************************************************************************)
EXTENDS Integers

CONSTANTS
    Registrations,  \* submissions of the form; each would make one account
    Bot,            \* the id of the bot's account
    Emails,         \* the emails that users type
    BotEmail,       \* BotUser:Email
    MaxStarts       \* bound: starts of the web application

ASSUME BotAssumption == Bot \notin Registrations
ASSUME BotEmailAssumption == BotEmail \in Emails
ASSUME StartsAssumption == MaxStarts \in Nat

Accounts == Registrations \cup {Bot}

VARIABLES
    identities,  \* identity_users, by the account they belong to
    chatUsers,   \* chat_users, likewise
    email,       \* the email of each account
    request,     \* what each registration is doing, or the reply it gave
    web,         \* the web application, and where BotUserCreator is
    withBot,     \* the environment is "Internal" or "Development"
    starts       \* how often it has been started

rows == <<identities, chatUsers>>
process == <<web, withBot, starts>>
vars == <<rows, email, request, process>>

Init ==
    /\ identities = {}
    /\ chatUsers = {}
    /\ email = [a \in Accounts |-> BotEmail]
    /\ request = [r \in Registrations |-> "none"]
    /\ web = "stopped"
    /\ withBot = FALSE
    /\ starts = 0

Taken(e) == \E a \in identities : email[a] = e

(* The requests whose transaction has an identity user in it.              *)
Inserting == {r \in Registrations : request[r] \in {"created", "saved"}}

Goes(r, to) == request' = [request EXCEPT ![r] = to]

(* The pieces that a slip would change, each preceded by the slip, a       *)
(* mutant the model does not use.                                          *)

SavedAtOnce(r) == identities \cup {r}

(* CreateAsync saves inside the transaction the handler has begun.         *)
SavedInTransaction(r) == identities

WaitsForNobody(r) == FALSE

WaitsSinceLookUp(r) ==
    \E s \in Registrations \ {r} :
        request[s] \in {"checked", "created", "saved"} /\ email[s] = email[r]

(* The unique index on NormalizedUserName.                                 *)
WaitsForAnother(r) == \E s \in Inserting \ {r} : email[s] = email[r]

ResultChecked(succeeded) == IF succeeded THEN "adding" ELSE "running"

(* BotUserCreator does not look at the result of CreateAsync.              *)
ResultIgnored(succeeded) == "adding"

NewId(ids) == ids

(* BotUserCreator gives the identity user the id of the bot.               *)
BotId(ids) == ids \cup {Bot}

(* The foreign key of chat_users.                                          *)
HasIdentity(a) == a \in identities

-----------------------------------------------------------------------------
(* CreateChatUserHandler up to the validation of CreateAsync, which looks  *)
(* the email up among the rows that are committed.                         *)
Register(r, e) ==
    /\ web = "running"
    /\ request[r] = "none"
    /\ email' = [email EXCEPT ![r] = e]
    /\ \/ ~Taken(e) /\ Goes(r, "checked")
       \/ Goes(r, "refused")
    /\ UNCHANGED <<rows, process>>

(* CreateAsync saves the identity user.  A duplicate that was committed    *)
(* after the look-up makes it throw.                                       *)
CreateIdentity(r) ==
    /\ request[r] = "checked"
    /\ ~WaitsForAnother(r)
    /\ \/ /\ ~Taken(email[r])
          /\ Goes(r, "created")
          /\ identities' = SavedInTransaction(r)
       \/ Goes(r, "failed") /\ UNCHANGED identities
    /\ UNCHANGED <<chatUsers, email, process>>

(* SaveChangesAsync of the chat user.                                      *)
SaveChatUser(r) ==
    /\ request[r] = "created"
    /\ Goes(r, "saved") \/ Goes(r, "failed")
    /\ UNCHANGED <<rows, email, process>>

(* CommitTransactionAsync, or its failure and the roll back.               *)
Commit(r) ==
    /\ request[r] = "saved"
    /\ \/ /\ Goes(r, "ok")
          /\ identities' = identities \cup {r}
          /\ chatUsers' = chatUsers \cup {r}
       \/ Goes(r, "failed") /\ UNCHANGED rows
    /\ UNCHANGED <<email, process>>

-----------------------------------------------------------------------------
StartWeb ==
    /\ web = "stopped"
    /\ starts < MaxStarts
    /\ starts' = starts + 1
    /\ web' = "checking"
    /\ withBot' \in BOOLEAN
    /\ UNCHANGED <<rows, email, request>>

(* BotUserCreator.Create up to CreateAsync.                                *)
CheckBot ==
    /\ web = "checking"
    /\ web' = IF withBot /\ Bot \notin chatUsers THEN "creating" ELSE "running"
    /\ UNCHANGED <<rows, email, request, withBot, starts>>

CreateBotIdentity ==
    /\ web = "creating"
    /\ \/ /\ ~Taken(BotEmail)
          /\ identities' = BotId(identities)
          /\ web' = ResultIgnored(TRUE)
       \/ /\ Taken(BotEmail)
          /\ web' = ResultIgnored(FALSE)
          /\ UNCHANGED identities
    /\ UNCHANGED <<chatUsers, email, request, withBot, starts>>

(* The chat user needs an identity user of the same id (its foreign key);  *)
(* without one the save throws, which ends the application.                *)
SaveBotChatUser ==
    /\ web = "adding"
    /\ \/ /\ HasIdentity(Bot)
          /\ chatUsers' = chatUsers \cup {Bot}
          /\ web' = "running"
       \/ /\ ~HasIdentity(Bot)
          /\ web' = "failed"
          /\ UNCHANGED chatUsers
    /\ UNCHANGED <<identities, email, request, withBot, starts>>

(* The application stops, or an error of the database ends its start; the  *)
(* transactions of its requests are rolled back.                           *)
StopWeb ==
    /\ web # "stopped"
    /\ web' = "stopped"
    /\ request' = [r \in Registrations |->
                     IF request[r] \in {"checked", "created", "saved"}
                        THEN "failed" ELSE request[r]]
    /\ UNCHANGED <<rows, email, withBot, starts>>

Next ==
    \/ \E r \in Registrations : \/ \E e \in Emails : Register(r, e)
                                \/ CreateIdentity(r)
                                \/ SaveChatUser(r)
                                \/ Commit(r)
    \/ StartWeb
    \/ CheckBot
    \/ CreateBotIdentity
    \/ SaveBotChatUser
    \/ StopWeb

(* A start and a request go on until they are done or the process stops.   *)
Fairness ==
    /\ WF_vars(CheckBot \/ CreateBotIdentity \/ SaveBotChatUser)
    /\ \A r \in Registrations :
          WF_vars(CreateIdentity(r) \/ SaveChatUser(r) \/ Commit(r))

Spec == Init /\ [][Next]_vars

FairSpec == Spec /\ Fairness

-----------------------------------------------------------------------------
(* Every variable keeps its type, and a chat user has its identity user.   *)
TypeOK ==
    /\ identities \in SUBSET Accounts
    /\ chatUsers \in SUBSET identities
    /\ email \in [Accounts -> Emails]
    /\ email[Bot] = BotEmail
    /\ request \in [Registrations -> {"none", "checked", "created", "saved",
                                      "ok", "refused", "failed"}]
    /\ web \in {"stopped", "checking", "creating", "adding", "running",
                "failed"}
    /\ withBot \in BOOLEAN
    /\ starts \in 0 .. MaxStarts

(* Nobody can log in without a chat user to talk as: the two rows of a     *)
(* registration appear together, whatever fails or stops between the       *)
(* saves, and only if it is answered with success.  The bot, which does    *)
(* not log in, may lack its chat user.                                     *)
AccountsAreWhole ==
    /\ identities \ {Bot} \subseteq chatUsers
    /\ chatUsers \ {Bot} = {r \in Registrations : request[r] = "ok"}

(* No two accounts have the same email, although each registration looks   *)
(* it up before the others have committed.                                 *)
EmailsAreDistinct ==
    \A a, b \in identities \cup Inserting : email[a] = email[b] => a = b

(* The bot can talk whenever the application runs where it is wanted: a    *)
(* start that finds half of its account, left by one that was stopped,     *)
(* makes the other half.                                                   *)
BotIsThere == web = "running" /\ withBot => Bot \in chatUsers

(* What is left of an earlier start never makes a start fail; only a user  *)
(* who registered with the bot's email where there was no bot does.        *)
FailsOnlyIfEmailTaken ==
    web = "failed" => \E r \in identities \ {Bot} : email[r] = BotEmail

(* Every registration is answered, though inserts wait for one another.    *)
EveryRegistrationEnds ==
    \A r \in Registrations :
        request[r] = "checked" ~> request[r] \in {"ok", "failed"}
=============================================================================

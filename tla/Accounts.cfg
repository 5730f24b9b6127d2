\* Three registrations with two emails, one of them the bot's; three starts.
SPECIFICATION FairSpec
CONSTANTS
    Registrations = {r1, r2, r3}
    Bot = Bot
    Emails = {e1, bot}
    BotEmail = bot
    MaxStarts = 3
INVARIANTS
    AccountsAreWhole
    EmailsAreDistinct
    BotIsThere
    FailsOnlyIfEmailTaken
PROPERTY
    EveryRegistrationEnds
\* The bounds stop it.
CHECK_DEADLOCK FALSE

SPECIFICATION Spec
CONSTANTS
    Contacts = {alice}
    Mailbox = mailbox
    Messages = {hello}
    SubIds <- MCSubIds
    MaxBreaks = 1
    MaxTrouble <- MCTrouble
INVARIANTS
    TypeOK
    ToldRegistered
    MessageToldTruly
    PublishedFollowsDnd
PROPERTIES
    PresenceCatchesUp
    RegistersAgain
    MessageSettles
CHECK_DEADLOCK FALSE

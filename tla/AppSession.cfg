CONSTANTS
    t1 = t1  t2 = t2
    Thread <- TwoThreads
    Machines <- FreshAndArmed
    MaxForeign = 1
    ForeignWrites = {"lock","store"}
    MaxClicks = 2
SPECIFICATION Spec
INVARIANT TypeOK
INVARIANT ShowsTheMachine
INVARIANT AnswerIsNewest
PROPERTY SwitchIsObeyed
PROPERTY CheckingEnds
PROPERTY QuitEndsApp

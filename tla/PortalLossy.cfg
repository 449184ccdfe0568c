CONSTANTS
    p1 = p1  p2 = p2
    a1 = a1  a2 = a2
    s1 = s1  s2 = s2
    e1 = e1  e2 = e2
    Absent = Absent
    NoBearer = NoBearer
    Garbled = Garbled
    Nothing = Nothing
    NoKey = NoKey
    NoToken = NoToken
    Proc <- TwoProcesses
    Account <- TwoAccounts
    SecretOf <- Secrets
    EnrollCode <- TwoEnrollCodes
    AccountOf <- Accounts
    Secret <- TwoSecrets
    Code <- TwoCodes
    Day = {1}
    Faults = TRUE
    Kills = TRUE
SPECIFICATION Spec
INVARIANT TypeOK
INVARIANT RecordIsOneAnswer
INVARIANT OpenedByItsOwnCode

SPECIFICATION BankSpec
CONSTANTS
    n_users = 3
    W = 2
    max_amount = 2
    PartySize = {3}
    Amount = {1, 3}
PROPERTIES
    MoneyIsKept

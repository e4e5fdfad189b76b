\* One id, one reservation, one landing, with the worker running.
SPECIFICATION WorkedSpec
CONSTANTS
    SaleIds = {1}
    Mints = {m1}
    Grosses = {2}
    UNITS_PER_TOKEN = 2
    NewRates = {1}
    StartRates <- MCStartRates
    Cap = 2
    None = None
    MaxReservations = 1
    MaxLandings = 1
    m1 = m1
PROPERTIES
    SalesGetBooked
CHECK_DEADLOCK FALSE

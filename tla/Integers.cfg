CONSTANTS
    W = 2
    N = 3
    Values <- MCValues
    DigitBits = 2
    MaxLimbs = 6
    Dividends <- MCDividends
    Divisors <- MCDivisors
    LimbWidth = 4
    Container = 4
    Operands <- MCOperands
    Threads = {t1, t2}
    Cpus <- MCCpus
SPECIFICATION MCSpec
INVARIANTS
    Exact
    QuotientRight
    EuclidRight
    FieldRight
    KernelsAgree
    ExponentRight
    DispatchRight
PROPERTY Answers
CHECK_DEADLOCK FALSE

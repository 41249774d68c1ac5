SPECIFICATION AdapterSpec
CONSTANTS
  k1 = k1  k2 = k2  i1 = i1  i2 = i2
  Keys = {k1, k2}
  Instances = {i1, i2}
  InstanceOf <- Owner
  Bound = {i1}
  Marks = {"booked"}
  MaxMishaps = 3
INVARIANTS ReceiptsAreTrue MailIsPaidFor
CHECK_DEADLOCK FALSE

SPECIFICATION FairSpec
CONSTANTS
  Events = {e1, e2, e3}
INVARIANTS TypeOK WelcomedAtMostOnce Accounted
PROPERTIES DeliveredIsHandled ImplementsDelivery

CONSTANTS
  Requests = {"r1", "r2"}
  OrderIds = {"a", "b"}
  Skus = {1, 2}
  Units = {1, 2}
  Baskets <- Both
  OnHand = 2
  Ops = {"place_order", "set_line", "remove_line", "cancel_order", "reserve", "settle", "attach_invoice", "remove_order", "receive", "ship", "count_stock", "update_stock", "reserve_units", "remove_stock"}
  MaxCalls = 2
SPECIFICATION Spec
INVARIANTS NoOversell HeldIsPromised BookExplainsShelf SettledIsPaid NoDeadlock
CHECK_DEADLOCK FALSE

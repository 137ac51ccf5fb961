------------------------ MODULE KernelAccessRefines ------------------------
(***************************************************************************)
(* KernelAccess implements LinkContract: the contract's state is read off  *)
(* my_state, cnt_state, entr_state, access_risk and the last event.        *)
(***************************************************************************)
EXTENDS KernelAccess

LinkOf(state) ==
  IF state = "das_reged" THEN "up"
  ELSE IF state = "das_break" THEN "broken" ELSE "down"

Contract == INSTANCE LinkContract
  WITH running <- (my_state = "start"),
       link <- LinkOf(cnt_state),
       moving  <- (entr_state = "switchover"),
       banned  <- access_risk,
       said    <- told

\* Every step of the kernel is a step of the contract or invisible in it:
\* no retry, command or option changes the link without what the contract
\* says is announced (ezdev_sdk_kernel_access.c).
Implements == Contract!LSpec
=============================================================================

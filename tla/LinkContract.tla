---------------------------- MODULE LinkContract ----------------------------
(***************************************************************************)
(* What the kernel promises the application about the link, without the    *)
(* servers, keys, retries and packets of KernelAccess: which transitions   *)
(* are announced, which one stays silent, and what a ban forbids.          *)
(***************************************************************************)
VARIABLES running,     \* between ezdev_sdk_kernel_start and _stop
          link,        \* "down", "up", "broken"
          moving,      \* the platform assigned another server
          banned,
          said         \* the last connectivity event

lvars == <<running, link, moving, banned, said>>

LInit ==
  /\ running = FALSE /\ link = "down" /\ moving = FALSE
  /\ banned = FALSE /\ said = "none"

\* Nothing announced since the start, or the loss was, or a move is pending:
\* the link may be rebuilt, and nobody believes it is up.
Unclaimed == said \in {"start", "break"} \/ moving

Reset ==
  /\ ~running
  /\ link' = "down" /\ moving' = FALSE /\ banned' = FALSE /\ said' = "none"
  /\ UNCHANGED running

Start ==
  /\ ~running
  /\ running' = TRUE /\ said' = "start"
  /\ UNCHANGED <<link, moving, banned>>

Stop ==
  /\ running /\ ~banned
  /\ running' = FALSE
  /\ UNCHANGED <<link, moving, banned, said>>

Stopped ==
  ~running /\ link' = "down" /\ UNCHANGED <<running, moving, banned, said>>

\* A registration completes: announced as a switch of server if one was due.
Register ==
  /\ running /\ link # "up" /\ Unclaimed
  /\ link' = "up" /\ moving' = FALSE
  /\ said' = IF moving THEN "switchover" ELSE "online"
  /\ UNCHANGED <<running, banned>>

\* A broken link is repaired with the old session.
Resume ==
  /\ running /\ ~banned /\ link = "broken"
  /\ link' = "up" /\ said' = "reconnect"
  /\ UNCHANGED <<running, moving, banned>>

\* The link is given up, and the application told.  The last refusal may
\* have been a ban.
GiveUp ==
  /\ running /\ ~banned /\ link # "up"
  /\ link' = "down" /\ said' = "break" /\ banned' \in BOOLEAN
  /\ UNCHANGED <<running, moving>>

\* The silent transitions.  A link breaks before anyone is told; so it does
\* when a late set_net_option stores into a state that has moved on.
Break == link' = "broken" /\ UNCHANGED <<running, moving, banned, said>>

\* A break marked during a registration ends with that registration.
Abandon ==
  /\ running /\ Unclaimed /\ link = "broken"
  /\ link' = "down"
  /\ UNCHANGED <<running, moving, banned, said>>

Move ==
  /\ link' = "down" /\ moving' = TRUE
  /\ UNCHANGED <<running, banned, said>>

Ban == banned' = TRUE /\ UNCHANGED <<running, link, moving, said>>

LNext ==
  \/ Reset \/ Start \/ Stop \/ Stopped \/ Register \/ Resume \/ GiveUp
  \/ Break \/ Abandon \/ Move \/ Ban

LSpec == LInit /\ [][LNext]_lvars

(***************************************************************************)
(* The device as a whole: the kernel, the ez_iot API over it, and the power *)
(* supply.  It adds two changes that the kernel alone does not make.        *)
(***************************************************************************)

PowerLoss ==
  /\ running' = FALSE /\ link' = "down" /\ moving' = FALSE
  /\ banned' = FALSE /\ said' = "none"

\* ez_iot_start could not create its thread: the start has been announced
\* and is taken back.
StartUndone ==
  /\ ~running /\ ~banned
  /\ link' = "down" /\ said' = "start"
  /\ UNCHANGED <<running, moving, banned>>

DeviceNext == LNext \/ PowerLoss \/ StartUndone

DeviceSpec == LInit /\ [][DeviceNext]_lvars
=============================================================================

------------------------------- MODULE MC_Bridge -----------------------------
(* Two or three connections; of three, two share an address.                 *)
EXTENDS Bridge

CONSTANTS c1, c2, c3

MCConn == {c1, c2}
MCIp == [c \in MCConn |-> 1]

Caps3 == {c1, c2, c3}
Ip3 == [c \in Caps3 |-> IF c = c3 THEN 2 ELSE 1]

\* One row of settings: caps, window, budget, input, and the two switches.
Settings(total, perIp, rate, hour, input, gate, scope) ==
  [MAX_CONCURRENT |-> total, MAX_PER_IP |-> perIp, RATE_MAX |-> rate,
   HOURLY_BUDGET |-> hour, MAX_IN_BYTES |-> input, SUBMIT_MAX |-> 1,
   TURNSTILE |-> gate, USE_SYSTEMD_RUN |-> scope]

\* Each cap binds in one of them.
MCConfigs ==
  {Settings(2, 1, 2, 1, 2, FALSE, TRUE), Settings(1, 2, 1, 2, 1, FALSE, FALSE),
   Settings(2, 2, 1, 2, 1, TRUE, FALSE)}

Configs3 == {Settings(1, 1, 1, 2, 1, TRUE, FALSE)}
=============================================================================

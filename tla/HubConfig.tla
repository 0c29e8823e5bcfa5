----------------------------- MODULE HubConfig -----------------------------
(***************************************************************************)
(* normalizeHubConfig (src/go/hub_config.go): what the durations of a      *)
(* HubConfig become before a hub, or an adapter that reads hub.Config(),   *)
(* uses them.  NewHubWithConfig normalises once and Config() again.        *)
(*                                                                         *)
(* A duration is a number of nanoseconds in 64 bits; it may be negative.   *)
(* WriteTimeout gets its default and nothing else.                         *)
(***************************************************************************)
EXTENDS Integers

Second == 1000000000
HalfRange == 4611686018427387904  \* 2^62, some 146 years
Duration == -2 * HalfRange .. 2 * HalfRange - 1

\* The multiplication of the code, which wraps around.
Twice(d) ==
  IF d >= HalfRange THEN 2 * d - 4 * HalfRange
  ELSE IF d < -HalfRange THEN 2 * d + 4 * HalfRange
  ELSE 2 * d

DefaultHubConfig == [heartbeat |-> 30 * Second, pong |-> 60 * Second]

OrDefault(d, default) == IF d = 0 THEN default ELSE d

\* PongTimeout is corrected after both have their defaults.
normalizeHubConfig(config) ==
  LET heartbeat == OrDefault(config.heartbeat, DefaultHubConfig.heartbeat)
      pong == OrDefault(config.pong, DefaultHubConfig.pong)
  IN  [heartbeat |-> heartbeat,
       pong |-> IF pong <= heartbeat THEN Twice(heartbeat) ELSE pong]

Config == [heartbeat : Duration, pong : Duration]

=============================================================================

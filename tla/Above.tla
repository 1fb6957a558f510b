-------------------------------- MODULE Above --------------------------------
(***************************************************************************)
(* The loop with which the ring of the live feed is replayed               *)
(* (livefeed.Hub.Subscribe) and the windows of the rate limits are trimmed *)
(* (abuse.Limiter.Observe): what lies above a bound is kept, in order.     *)
(***************************************************************************)
EXTENDS Integers, Sequences

Above(s, bound) ==
  LET kept[i \in 0..Len(s)] == IF i = 0 THEN <<>>
                               ELSE IF s[i] > bound THEN Append(kept[i - 1], s[i])
                               ELSE kept[i - 1]
  IN  kept[Len(s)]

==============================================================================

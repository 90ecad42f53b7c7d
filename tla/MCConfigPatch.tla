--------------------------- MODULE MCConfigPatch ---------------------------
(* One channel: its base_url, its api_base_url, a feature flag the user may *)
(* have set already, and a context window that is learned while running.    *)
EXTENDS ConfigPatch

CONSTANTS base, api, flag, window, u, v, local, yes, no, learned, revised

MCValue == {u, v, local, yes, no, learned, revised}

\* The projections: only a learned window is ever replaced by another one.
MCLent == [f \in Field |->
  CASE f \in Route -> {local}
    [] f = flag -> {yes}
    [] f = window -> {learned, revised}]

MCTyped == [f \in Field |->
  CASE f = base -> {u, v, local, Torn, Absent}
    [] f = api -> {Absent, local}
    [] f = flag -> {yes, no}
    [] f = window -> {v, Absent}]
=============================================================================

----------------------------- MODULE ClientCalls -----------------------------
(***************************************************************************)
(* What the calls of the client library (invocation/stockstat/client.py,   *)
(* compute_api.py) submit, and where: pure data flow, no state.            *)
(*                                                                         *)
(* A call is a record: kind is the family of client methods,               *)
(*   "indicator"  the wrappers ma ... permutation_entropy,                 *)
(*   "statistic"  the wrappers around _submit_sync,                        *)
(*   "inline"     backtest, grid_search, batch_backtest and remote;        *)
(* data is what the caller passes as data: "plain" for numbers, strings    *)
(* and lists, "series" for a pandas object or an array, "frames" for a     *)
(* dict of frames; big, the estimated size exceeds local_threshold_mb;     *)
(* heavy, the task type is in HEAVY_TYPES; via, the backend of the client. *)
(***************************************************************************)

Backends == {"local", "remote"}

Vias == Backends \cup {"auto"}

IndicatorCalls == [kind : {"indicator"}, data : {"plain", "series"},
                   big : BOOLEAN, heavy : {FALSE}, via : Vias]
StatisticCalls == [kind : {"statistic"}, data : {"plain", "series"},
                   big : BOOLEAN, heavy : {FALSE}, via : Vias]
TaskCalls == [kind : {"inline"}, data : {"plain", "series", "frames"},
              big : BOOLEAN, heavy : BOOLEAN, via : Vias]

Calls == IndicatorCalls \cup StatisticCalls \cup TaskCalls

(* StockStatClient._build_default_backend: what the configuration names.   *)
DefaultBackend(configured) ==
  IF configured \in {"remote", "auto"} THEN configured ELSE "local"

(* _dispatch_indicator: a backend with a compute_indicator of its own is   *)
(* taken for the local one, and no task is submitted.                      *)
ComputedByCaller(call) == call.kind = "indicator" /\ call.via = "local"

(* The params of the ComputeSpec that carry data.                          *)
DataParams(call) ==
  CASE call.kind = "indicator" -> {"_arg_0", "_inline_data"}
    [] call.kind = "statistic" -> {"x"}
    [] OTHER -> {"_inline_data"}

(* AutoComputeBackend._choose: by type, then by the size of _inline_data.  *)
Target(call) ==
  IF call.via # "auto" THEN call.via
  ELSE IF call.heavy \/ ("_inline_data" \in DataParams(call) /\ call.big)
       THEN "remote" ELSE "local"

(* RemoteComputeBackend.submit replaces an _inline_data that is neither    *)
(* JSON nor a container by base64 text; the rest has to be JSON itself.    *)
Posts(call) ==
  \A param \in DataParams(call) :
    \/ call.data = "plain"
    \/ call.data = "series" /\ param = "_inline_data"

(* The handler finds its arguments: handle_indicator passes every other    *)
(* param on to the indicator, also the "_arg_0" it has no parameter for.   *)
HandlerAccepts(call) == "_arg_0" \notin DataParams(call)
=============================================================================

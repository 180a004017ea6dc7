----------------------------- MODULE MergedView -----------------------------
(***************************************************************************)
(* How Tracer.java merges the steps that it read of the kernel's file with *)
(* the spans of its own timeline, and how both programs file a step under  *)
(* a section of the report.  The name that event_name writes of a type is  *)
(* one-to-one with it (SOCK_DEF_READABLE is shortened to SOCK_READABLE),   *)
(* so a step is classified here by the type that its name stands for.      *)
(***************************************************************************)
EXTENDS Naturals, Sequences, FiniteSets

Sections == {"Network layer", "Kernel socket layer", "Web server",
             "Application", "Database", "Response path"}

(* collector/timeline.c *)
event_section(type) ==
  CASE type \in {"EVENT_NET_RX", "EVENT_NAPI_POLL", "EVENT_ETHERNET_RX",
                 "EVENT_IRQ_ENTRY", "EVENT_SOFTIRQ_ENTRY", "EVENT_IP_RCV",
                 "EVENT_NETFILTER_HOOK", "EVENT_ROUTE_LOOKUP",
                 "EVENT_TCP_V4_RCV", "EVENT_TCP_STATE_MACHINE"} -> "Network layer"
    [] type \in {"EVENT_ACCEPT4_ENTER", "EVENT_ACCEPT4_EXIT",
                 "EVENT_NGINX_HTTP_PARSE", "EVENT_NGINX_REVERSE_PROXY",
                 "EVENT_NGINX_BACKEND_SOCKET"} -> "Web server"
    [] type \in {"EVENT_NGINX_RESPONSE_GEN", "EVENT_NGINX_RESPONSE_TX",
                 "EVENT_SENDTO_ENTER", "EVENT_SENDTO_EXIT", "EVENT_TCP_SENDMSG",
                 "EVENT_TCP_WRITE_XMIT", "EVENT_IP_OUTPUT",
                 "EVENT_NET_DEV_QUEUE"} -> "Response path"
    [] OTHER -> "Kernel socket layer"

(* Tracer.java, on the names; a step without a known name is the socket's. *)
kernelSection(type) ==
  CASE type \in {"EVENT_NET_RX", "EVENT_NAPI_POLL", "EVENT_ETHERNET_RX",
                 "EVENT_IRQ_ENTRY", "EVENT_SOFTIRQ_ENTRY", "EVENT_IP_RCV",
                 "EVENT_NETFILTER_HOOK", "EVENT_ROUTE_LOOKUP",
                 "EVENT_TCP_V4_RCV", "EVENT_TCP_STATE_MACHINE"} -> "Network layer"
    [] type \in {"EVENT_ACCEPT4_ENTER", "EVENT_ACCEPT4_EXIT",
                 "EVENT_NGINX_HTTP_PARSE", "EVENT_NGINX_REVERSE_PROXY",
                 "EVENT_NGINX_BACKEND_SOCKET"} -> "Web server"
    [] type \in {"EVENT_NGINX_RESPONSE_GEN", "EVENT_NGINX_RESPONSE_TX",
                 "EVENT_SENDTO_ENTER", "EVENT_SENDTO_EXIT", "EVENT_TCP_SENDMSG",
                 "EVENT_TCP_WRITE_XMIT", "EVENT_IP_OUTPUT",
                 "EVENT_NET_DEV_QUEUE"} -> "Response path"
    [] OTHER -> "Kernel socket layer"

jvmSection(stage) ==
  IF stage \in {"SQL_QUERY", "POSTGRESQL"} THEN "Database" ELSE "Application"

-----------------------------------------------------------------------------
KernelEntry(step) ==
  [layer |-> "kernel", section |-> kernelSection(step.event), of |-> step]

JvmEntry(span) ==
  [layer |-> "jvm", section |-> jvmSection(span.stage), of |-> span]

(* The elements of a sequence at these places, in their order. *)
Nth(places, k) == CHOOSE i \in places : Cardinality({j \in places : j <= i}) = k
Picked(seq, places) == [k \in 1 .. Cardinality(places) |-> seq[Nth(places, k)]]

(* Mutant: the steps of the response are put aside and not shown.          *)
merged_without_response(kernelSteps, jvmSpans) ==
  LET kernel == [k \in 1 .. Len(kernelSteps) |-> KernelEntry(kernelSteps[k])]
  IN  Picked(kernel, {k \in 1 .. Len(kernel) : kernel[k].section # "Response path"})
      \o [k \in 1 .. Len(jvmSpans) |-> JvmEntry(jvmSpans[k])]

(* The steps of the response are shown after the application's spans; the  *)
(* number of a step is its place in the sequence.                          *)
buildMergedSteps(kernelSteps, jvmSpans) ==
  LET kernel == [k \in 1 .. Len(kernelSteps) |-> KernelEntry(kernelSteps[k])]
      response == {k \in 1 .. Len(kernel) : kernel[k].section = "Response path"}
  IN  Picked(kernel, (1 .. Len(kernel)) \ response)
      \o [k \in 1 .. Len(jvmSpans) |-> JvmEntry(jvmSpans[k])]
      \o Picked(kernel, response)

(* The number of steps that the JSON line gives for each section. *)
StepsOfSection(steps) ==
  [s \in Sections |-> Cardinality({k \in 1 .. Len(steps) : steps[k].section = s})]
=============================================================================

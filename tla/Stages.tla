------------------------------- MODULE Stages -------------------------------
(***************************************************************************)
(* How collector/timeline.c classifies event types for its reports.        *)
(***************************************************************************)

Actors == {"NET", "IRQ", "SOFTIRQ", "KERNEL", "SCHED", "APP", "TX"}

(* The participant of the sequence diagram that an event is drawn at. *)
seq_actor(type) ==
  CASE type \in {"EVENT_NET_RX", "EVENT_NAPI_POLL", "EVENT_ETHERNET_RX",
                 "EVENT_IP_RCV", "EVENT_NETFILTER_HOOK", "EVENT_ROUTE_LOOKUP",
                 "EVENT_TCP_V4_RCV"} -> "NET"
    [] type = "EVENT_IRQ_ENTRY" -> "IRQ"
    [] type = "EVENT_SOFTIRQ_ENTRY" -> "SOFTIRQ"
    [] type \in {"EVENT_SCHED_WAKEUP", "EVENT_SCHED_SWITCH"} -> "SCHED"
    [] type \in {"EVENT_RECVFROM_ENTER", "EVENT_RECVFROM_EXIT",
                 "EVENT_SENDTO_ENTER", "EVENT_SENDTO_EXIT",
                 "EVENT_ACCEPT4_ENTER", "EVENT_ACCEPT4_EXIT",
                 "EVENT_NGINX_HTTP_PARSE", "EVENT_NGINX_REVERSE_PROXY",
                 "EVENT_NGINX_BACKEND_SOCKET", "EVENT_NGINX_RESPONSE_GEN",
                 "EVENT_NGINX_RESPONSE_TX"} -> "APP"
    [] type \in {"EVENT_TCP_SENDMSG", "EVENT_TCP_WRITE_XMIT",
                 "EVENT_IP_OUTPUT", "EVENT_NET_DEV_QUEUE"} -> "TX"
    [] OTHER -> "KERNEL"
=============================================================================

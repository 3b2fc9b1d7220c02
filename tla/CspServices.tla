---------------------------- MODULE CspServices -----------------------------
(* The services of a node: csp_service_handler (src/csp_service_handler.c)    *)
(* and the calls a client makes for them (src/csp_services.c).  What a packet *)
(* says is a short string; lengths are those of the code.                     *)
EXTENDS CspNode, TLC

CONSTANT CmpRoute   \* what a route_set request asks for: [addr, mask, i, via]

CSP_CMP == 0
CSP_PING == 1
CSP_PS == 2
CSP_MEMFREE == 3
CSP_REBOOT == 4
CSP_BUF_FREE == 5
CSP_UPTIME == 6

\* struct csp_cmp_message: the length of each message, type and code included.
CMP_SIZE == [ident |-> 93, route_set_v1 |-> 15, route_set_v2 |-> 19, if_stats |-> 53,
             peek |-> 17, poke |-> 17, clock |-> 10]

\* csp_iflist_get_by_name
KnownIface(i) == i \in Range(IfList)

do_cmp_route_set_v1(n) ==
    [n EXCEPT !.rtable = csp_rtable_set(@, CmpRoute.addr, HostBits, CmpRoute.i, CmpRoute.via)]

do_cmp_route_set_v2(n) ==
    [n EXCEPT !.rtable = csp_rtable_set(@, CmpRoute.addr, CmpRoute.mask, CmpRoute.i, CmpRoute.via)]

\* do_cmp_if_stats, do_cmp_peek, do_cmp_poke and do_cmp_clock answer or refuse:
\* an unknown interface, too many bytes, a clock that cannot be set.
Refused(code) ==
    code \in {"if_stats_unknown", "peek_long", "poke_long", "clock_set_fails", "code_unknown"}

\* csp_cmp_handler: the data of a ping reads as a request for the identity.
\* Only ident, route_set and if_stats set the length; the answers of the others
\* keep the length of the request.
csp_cmp_handler(n, b) ==
    LET code == IF n.buf[b].data = "ping" THEN "ident" ELSE n.buf[b].data
        n1   == CASE code = "route_set_v1" -> do_cmp_route_set_v1(n)
                  [] code = "route_set_v2" -> do_cmp_route_set_v2(n)
                  [] OTHER -> n
        size == IF code \in {"ident", "route_set_v1", "route_set_v2", "if_stats"}
                THEN CMP_SIZE[code] ELSE n.buf[b].len
        ok   == /\ ~Refused(code) /\ code \in DOMAIN CMP_SIZE
                /\ code \in {"route_set_v1", "route_set_v2"} => KnownIface(CmpRoute.i)
    IN  [ok |-> ok, n |-> [n1 EXCEPT !.buf[b].data = code \o "_reply", !.buf[b].len = size]]

\* csp_ps_hook of the POSIX port
csp_ps_hook == 0

Answer(n, b, data, len) == [n EXCEPT !.buf[b].data = data, !.buf[b].len = len]

\* csp_service_handler up to its reply: the packet of the request becomes the
\* reply.  csp_reboot_hook and csp_shutdown_hook return when the process may not
\* do it; what is not answered is freed.
Answered(n, b, dport) ==
    CASE dport = CSP_PS -> IF csp_ps_hook = 0 THEN csp_buffer_free(Answer(n, b, n.buf[b].data, 0), b)
                           ELSE Answer(n, b, "ps_reply", csp_ps_hook)
      [] dport = CSP_MEMFREE -> Answer(n, b, "memfree_reply", 4)
      [] dport = CSP_BUF_FREE -> Answer(n, b, "buf_free_reply", 4)
      [] dport = CSP_UPTIME -> Answer(n, b, "uptime_reply", 4)
      [] OTHER -> n

ReplyOrFree(n, cmp, b, txok) ==
    IF cmp.ok THEN csp_sendto_reply(cmp.n, cmp.n.buf[b], b, txok) ELSE csp_buffer_free(n, b)

csp_service_handler(n, b, txok) ==
    LET dport == n.buf[b].id.dport
    IN  ReplyOrFree(n, IF dport = CSP_CMP THEN csp_cmp_handler(n, b)
                       ELSE [ok |-> dport \in CSP_PING .. CSP_UPTIME \ {CSP_REBOOT},
                             n |-> Answered(n, b, dport)], b, txok)

-----------------------------------------------------------------------------
(* The calls: port, what is sent, its length and that of the answer (0: none  *)
(* is read, -1: any length will do), and what the answer has to say.          *)

Call(dport, data, out, in) ==
    [prio |-> 2, dport |-> dport, data |-> data, out |-> out, in |-> in,
     flags |-> {}, early |-> FALSE, all |-> FALSE]

csp_ping == Call(CSP_PING, "ping", 100, -1)
\* The buffer is taken before the connection is opened.
csp_ping_noreply == [Call(CSP_PING, "0x55", 1, 0) EXCEPT !.early = TRUE]
csp_reboot == Call(CSP_REBOOT, "reboot", 4, 0)
csp_shutdown == Call(CSP_REBOOT, "shutdown", 4, 0)
\* Every packet that arrives is printed, until one read gives nothing.
csp_ps == [Call(CSP_PS, "0x55", 1, -1) EXCEPT !.all = TRUE]
csp_get_memfree == Call(CSP_MEMFREE, "memfree", 0, 4)
csp_get_buf_free == Call(CSP_BUF_FREE, "buf_free", 0, 4)
csp_get_uptime == Call(CSP_UPTIME, "uptime", 0, 4)
csp_cmp(code) == Call(CSP_CMP, code, CMP_SIZE[code], CMP_SIZE[code])

\* The packet answers the call.
Answers(call, p) ==
    IF call.dport = CSP_PING THEN p.data = call.data ELSE p.data = call.data \o "_reply"
=============================================================================

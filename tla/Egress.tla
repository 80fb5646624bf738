------------------------------- MODULE Egress -------------------------------
(***************************************************************************)
(* crates/mdok-curl, CurlPolicy: where a transfer may connect.              *)
(*                                                                         *)
(* The URL of a request is checked when its plan is parsed, before the      *)
(* transfer and at every redirect; the addresses a host resolves to are     *)
(* checked before the transfer, at every redirect, and once more by the     *)
(* resolver of the client that makes the connection.  Name service is free  *)
(* to answer each of these questions differently.  A plan can pin a host to *)
(* an address (--resolve, --connect-to) or name a proxy.  A child request   *)
(* of a script (mode "fetch") has no plan and goes through the gated client. *)
(*                                                                         *)
(* A host name is the sequence of its labels; an address is its class.      *)
(***************************************************************************)
EXTENDS Integers, Sequences, SequencesExt

CONSTANTS Hosts,        \* hosts of the URLs, mappings and proxies considered
          Addresses,    \* what name service can answer
          Policies,     \* the scheme, host and network rules of a CurlPolicy considered
          Plans,        \* the connection options of the CurlPlans considered
          MaxRedirs,    \* --max-redirs
          MaxRetries    \* --retry of the plans that retry

V4(class) == [family |-> "v4", class |-> class]
V6(class) == [family |-> "v6", class |-> class]
Embedded(class, of) == [family |-> "v6", class |-> class, of |-> of]

(* The IPv4 address an IPv6 address stands for to the policy: that embedded  *)
(* in it, and to to_ipv4 also 0.0.0.1 for ::1, V6("loopback"), and 0.0.0.0   *)
(* for ::, V6("unspecified").  The loopback test of the IPv6 arm sees        *)
(* neither: ::1 is allowed.                                                  *)
ToIpv4(a) ==
    CASE a.class \in {"mapped", "compatible"} -> {a.of}
      [] a.class = "loopback" -> {"other"}
      [] a.class = "unspecified" -> {"unspecified"}
      [] OTHER -> {}

DeniedV4 == {"loopback", "private", "unspecified", "link_local", "broadcast", "shared",
             "ietf", "documentation"}
DeniedAddress(a) ==
    IF a.family = "v4" THEN a.class \in DeniedV4
    ELSE IF ToIpv4(a) # {} THEN ToIpv4(a) \subseteq DeniedV4
    ELSE a.class \in {"loopback", "unspecified", "unique_local", "link_local"}

(* A host is a name, the sequence of its labels, or the text of an address.  *)
Named(labels) == [kind |-> "name", text |-> labels]
Literal4(text, a) == [kind |-> "v4", text |-> <<text>>, addr |-> a]
Literal6(text, a) == [kind |-> "v6", text |-> <<text>>, addr |-> a]
Localhost == {Named(<<"localhost">>), Named(<<"localhost", "localdomain">>)}

Urls == [scheme : {"https", "ftp"}, host : Hosts]

HostMatchesPattern(host, pattern) ==
    \/ ~pattern.wild /\ pattern.labels = host.text
    \/ pattern.wild /\ IsSuffix(pattern.labels, host.text)   \* "*" has no labels

(* CurlPolicy::check_url.  hosts is <<>> when allowed_hosts is None.          *)
CheckUrl(p, u) ==
    /\ u.scheme \in p.schemes
    /\ p.hosts = <<>> \/ u.host \in p.hosts[1]
    /\ \A pattern \in p.denied : ~HostMatchesPattern(u.host, pattern)
    /\ p.allowed = {} \/ \E pattern \in p.allowed : HostMatchesPattern(u.host, pattern)
    /\ \/ p.private
       \/ u.host.kind = "name" /\ u.host \notin Localhost
       \/ u.host.kind # "name" /\ ~DeniedAddress(u.host.addr)

CheckSocketAddress(p, a) == p.private \/ ~DeniedAddress(a)

(* CurlPolicy::resolve_host: one address the policy denies spoils the answer. *)
ResolveHost(p, answer) == answer # {} /\ \A a \in answer : CheckSocketAddress(p, a)

CheckResolvedUrl(p, answer) == p.private \/ ResolveHost(p, answer)

EnforceUrl(p, u, answer) == CheckUrl(p, u) /\ CheckResolvedUrl(p, answer)

VARIABLES
    mode,       \* "curl": the transfer of a plan; "fetch": a child request of a script
    policy,     \* CurlPolicy
    plan,       \* follow, retries, resolve, connectTo, proxy
    target,     \* the URL of the plan or of the child request
    pins,       \* addresses the client was built with, by host name
    pc,
    url,        \* the URL the client is at
    hops,       \* redirects followed by this attempt
    attempt,    \* retries made
    result,
    connections \* history: the connections made: for which URL, to which peer and address

vars == <<mode, policy, plan, target, pins, pc, url, hops, attempt, result, connections>>

None == [kind |-> "none"]
Pin(host, addr) == [kind |-> "pin", host |-> host, addr |-> addr]
ConnectTo(host, to) == [kind |-> "connect_to", host |-> host, to |-> to]
NoPlan == [follow |-> TRUE, retries |-> 0, resolve |-> None, connectTo |-> None, proxy |-> None]

(* Name service, external: a name has any addresses, at any time; an IPv4    *)
(* literal is its own answer; a bracketed IPv6 literal has none.             *)
Answers(host) ==
    CASE host.kind = "name" -> SUBSET Addresses
      [] host.kind = "v4" -> {{host.addr}}
      [] host.kind = "v6" -> {{}}

Init ==
    /\ mode \in {"curl", "fetch"} /\ policy \in Policies
    /\ plan \in IF mode = "curl" THEN Plans ELSE {NoPlan}
    /\ target \in Urls /\ url = target
    /\ pins = {} /\ hops = 0 /\ attempt = 0 /\ result = "none" /\ connections = {}
    /\ pc = IF mode = "curl" THEN "parse" ELSE "check"

Return(answer) == pc' = "returned" /\ result' = answer
GoTo(label) == pc' = label /\ UNCHANGED result

(* CurlPlan::parse and ParserState::finish: the options that move a          *)
(* connection are gated by the policy; an address of --resolve is checked.   *)
ParseAccepts ==
    /\ plan.proxy # None => policy.proxy
    /\ plan.resolve # None => policy.resolve /\ CheckSocketAddress(policy, plan.resolve.addr)
    /\ plan.connectTo # None => policy.connectTo
    /\ CheckUrl(policy, target)

Parse ==
    /\ pc = "parse"
    /\ IF ParseAccepts THEN GoTo("check") ELSE Return("refused")
    /\ UNCHANGED <<mode, policy, plan, target, pins, url, hops, attempt, connections>>

NativeEligible ==
    /\ mode = "curl" /\ ~plan.follow /\ plan.retries = 0
    /\ plan.proxy = None /\ plan.resolve = None /\ plan.connectTo = None
    /\ policy.private \/ url.host.kind = "v4"

(* The entry of execute_in_session_with_cancel and of the fetch executor.    *)
Check ==
    /\ pc = "check"
    /\ \E answer \in Answers(url.host) :
          IF EnforceUrl(policy, url, answer)
            THEN GoTo(IF NativeEligible THEN "native" ELSE "build")
            ELSE Return("refused")
    /\ UNCHANGED <<mode, policy, plan, target, pins, url, hops, attempt, connections>>

Connection(peer, a, via) == [url |-> url, peer |-> peer, addr |-> a, via |-> via]

(* libcurl looks the host up for itself and asks no policy.                  *)
Native ==
    /\ pc = "native"
    /\ \E a \in IF url.host.kind = "name" THEN Addresses ELSE {url.host.addr} :
          connections' = connections \cup {Connection(url.host, a, "libcurl")}
    /\ Return("sent")
    /\ UNCHANGED <<mode, policy, plan, target, pins, url, hops, attempt>>

(* The builder of the fallback client.  A pin of --connect-to is set after   *)
(* that of --resolve and replaces it for the same host.                      *)
Build ==
    /\ pc = "build"
    /\ LET given == IF plan.resolve = None THEN {} ELSE {plan.resolve}
       IN \/ plan.connectTo = None /\ pins' = given /\ GoTo("attempt")
          \/ /\ plan.connectTo # None
             /\ \E answer \in Answers(plan.connectTo.to) :
                   IF ResolveHost(policy, answer)
                     THEN /\ \E a \in answer :
                               pins' = {p \in given : p.host # plan.connectTo.host}
                                       \cup {Pin(plan.connectTo.host, a)}
                          /\ GoTo("attempt")
                     ELSE Return("refused") /\ UNCHANGED pins
    /\ UNCHANGED <<mode, policy, plan, target, url, hops, attempt, connections>>

(* Mutant of PolicyDnsResolver: the lookup before the transfer is trusted.   *)
TrustingResolver(answer) == answer

(* PolicyDnsResolver::resolve: the addresses of a lookup made to connect.    *)
PolicyDnsResolver(answer) == IF ResolveHost(policy, answer) THEN answer ELSE {}

(* The client, external: a literal and a pinned name are not looked up, and  *)
(* an idle connection to the same peer may be used again.                    *)
ClientAddresses(peer, answer) ==
    LET pinned == {p \in pins : p.host = peer}
        idle == {c.addr : c \in {d \in connections : d.peer = peer}}
    IN  idle \cup (IF peer.kind # "name" THEN {peer.addr}
                   ELSE IF pinned # {} THEN {p.addr : p \in pinned}
                   ELSE PolicyDnsResolver(answer))

(* An attempt that fails, or whose status is worth it, is made again.        *)
AttemptEnds(answer) ==
    \/ Return(answer) /\ UNCHANGED <<url, hops, attempt>>
    \/ /\ attempt < plan.retries
       /\ attempt' = attempt + 1 /\ url' = target /\ hops' = 0 /\ GoTo("attempt")

Connect ==
    /\ pc = "attempt"
    /\ LET peer == IF plan.proxy = None THEN url.host ELSE plan.proxy
       IN \E answer \in Answers(peer) :
             \/ /\ ClientAddresses(peer, answer) = {}
                /\ AttemptEnds("failed") /\ UNCHANGED connections
             \/ \E a \in ClientAddresses(peer, answer) :
                  /\ connections' = connections \cup {Connection(peer, a, "client")}
                  /\ GoTo("sent") /\ UNCHANGED <<url, hops, attempt>>
    /\ UNCHANGED <<mode, policy, plan, target, pins>>

(* The server redirects: the closure of the redirect policy.                 *)
Redirect ==
    /\ pc = "sent" /\ plan.follow
    /\ \E u \in Urls : \E answer \in Answers(u.host) :
          IF EnforceUrl(policy, u, answer) /\ hops + 1 <= MaxRedirs
            THEN url' = u /\ hops' = hops + 1 /\ GoTo("attempt") /\ UNCHANGED attempt
            ELSE AttemptEnds("failed")
    /\ UNCHANGED <<mode, policy, plan, target, pins, connections>>

Respond ==
    /\ pc = "sent"
    /\ AttemptEnds("sent")
    /\ UNCHANGED <<mode, policy, plan, target, pins, connections>>

Done == pc = "returned" /\ UNCHANGED vars

Next == Parse \/ Check \/ Native \/ Build \/ Connect \/ Redirect \/ Respond \/ Done

Spec == Init /\ [][Next]_vars

-----------------------------------------------------------------------------
TypeOK ==
    /\ mode \in {"curl", "fetch"} /\ policy \in Policies /\ plan \in Plans \cup {NoPlan}
    /\ target \in Urls /\ url \in Urls
    /\ pc \in {"parse", "check", "native", "build", "attempt", "sent", "returned"}
    /\ result \in {"none", "refused", "failed", "sent"}

(* What the addresses of a private network are, whatever the code denies.    *)
Internal(a) ==
    IF a.family = "v4" THEN a.class \in {"loopback", "private", "link_local", "unspecified"}
    ELSE IF a.class \in {"mapped", "compatible"}
      THEN a.of \in {"loopback", "private", "link_local", "unspecified"}
      ELSE a.class \in {"loopback", "link_local", "unspecified", "unique_local"}
IPv6Loopback(a) == a.family # "v4" /\ a.class = "loopback"

(* Whatever name service answers to each lookup, wherever a server redirects *)
(* and however often the transfer is retried: a connection is only made for  *)
(* a URL the policy allows, and to an address it lets through.  With the     *)
(* private network closed that is no address of one, with two exceptions: a  *)
(* proxy the policy lets the plan name may be given as an address, and the   *)
(* IPv6 loopback ::1 is let through, as a name's address or in a URL.        *)
(* (CurlPolicy, PolicyDnsResolver, the redirect closures, native_eligible)   *)
EgressConfined ==
    \A c \in connections :
        /\ CheckUrl(policy, c.url)
        /\ \/ /\ CheckSocketAddress(policy, c.addr)
              /\ policy.private \/ ~Internal(c.addr) \/ IPv6Loopback(c.addr)
           \/ policy.proxy /\ c.peer = plan.proxy /\ c.peer.kind # "name"

=============================================================================

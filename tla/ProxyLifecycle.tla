--------------------------- MODULE ProxyLifecycle ---------------------------
(***************************************************************************)
(* What the holders of a staked token may count on, however its deployment *)
(* went: a proxy is set up once, for one administrator, who never changes, *)
(* and from then on it always runs an implementation of the revision it    *)
(* has been initialised for, which only grows.                             *)
(***************************************************************************)
EXTENDS Integers

CONSTANTS Implementations,  \* the kinds of implementation
          Revision,         \* of each kind
          NoCode            \* what a proxy runs before it is set up

VARIABLE proxies   \* at each address of a proxy: its code, revision and admin

Untouched == [code |-> NoCode, revision |-> 0, admin |-> NoCode]

Init == proxies = [a \in {} |-> Untouched]

(* Another proxy is on the chain; the others are as they were. *)
Create == \E a \in DOMAIN proxies' \ DOMAIN proxies :
  proxies' = [x \in DOMAIN proxies \union {a} |->
                IF x = a THEN Untouched ELSE proxies[x]]

(* A proxy is set up, for whatever administrator it is then to keep. *)
SetUp(a) ==
  /\ proxies[a] = Untouched
  /\ \E k \in Implementations :
       proxies' = [proxies EXCEPT ![a] =
                     [code |-> k, revision |-> Revision[k], admin |-> proxies'[a].admin]]

(* The administrator of a proxy moves it to a later revision. *)
Upgrade(a) ==
  /\ proxies[a].code # NoCode
  /\ \E k \in Implementations :
       /\ Revision[k] > proxies[a].revision
       /\ proxies' = [proxies EXCEPT ![a].code = k, ![a].revision = Revision[k]]

Next == Create \/ \E a \in DOMAIN proxies : SetUp(a) \/ Upgrade(a)

Spec == Init /\ [][Next]_proxies

=============================================================================

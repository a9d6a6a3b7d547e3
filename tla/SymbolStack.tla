---------------------------- MODULE SymbolStack -----------------------------
(***************************************************************************)
(* SymbolStack of ast.h (146-183), the symbol table: a stack of maps, one  *)
(* per open scope.  A map is a function on the names declared in it, as    *)
(* HashMap shows of the StringMap below it.  An Option<Symbol> is a set of *)
(* at most one symbol.                                                     *)
(***************************************************************************)
EXTENDS Integers, Sequences

CONSTANTS
    Names,          \* StringRef, by content
    Symbols,
    MaxScopes       \* bound: the scopes open at a time

ASSUME SymbolStackAssumption == MaxScopes \in Nat \ {0}

VARIABLES
    scopes,     \* global scope first
    call        \* the call made last, no part of the code

stackVars == <<scopes, call>>

EmptyScope == [n \in {} |-> {}]

enter_scope ==
    /\ scopes' = Append(scopes, EmptyScope)
    /\ call' = <<"enter_scope">>

exit_scope_slip ==
    /\ scopes' = SubSeq(scopes, 1, Len(scopes) - 1)
    /\ call' = <<"exit_scope">>

(* "Prevent popping the global scope"                                      *)
exit_scope ==
    /\ scopes' = IF Len(scopes) > 1 THEN SubSeq(scopes, 1, Len(scopes) - 1)
                 ELSE scopes
    /\ call' = <<"exit_scope">>

Put(scope, n, s) ==
    [m \in DOMAIN scope \cup {n} |-> IF m = n THEN s ELSE scope[m]]

(* put on the map of the innermost scope: a name declared there already    *)
(* gets the new symbol.                                                    *)
declare(n, s) ==
    /\ scopes' = [scopes EXCEPT ![Len(scopes)] = Put(@, n, s)]
    /\ call' = <<"declare", n, s>>

(* The open scopes, of the first d, that declare n.                        *)
Declaring(d, n) == {e \in 1 .. d : n \in DOMAIN scopes[e]}

lookup_at_slip(d, n) ==
    {scopes[e][n] : e \in {f \in Declaring(d, n) :
                               \A g \in Declaring(d, n) : f <= g}}

(* What lookup(n) returns when d scopes are open: its loop goes from the   *)
(* innermost scope outwards and ends at the first that has n.              *)
lookup_at(d, n) ==
    {scopes[e][n] : e \in {f \in Declaring(d, n) :
                               \A g \in Declaring(d, n) : g <= f}}

-----------------------------------------------------------------------------

(* The constructor with an arena opens the global scope.                   *)
StackInit == scopes = <<EmptyScope>> /\ call = <<"enter_scope">>

StackNext ==
    \/ Len(scopes) < MaxScopes /\ enter_scope
    \/ exit_scope
    \/ \E n \in Names, s \in Symbols : declare(n, s)

StackSpec == StackInit /\ [][StackNext]_stackVars

-----------------------------------------------------------------------------

Scope == UNION {[D -> Symbols] : D \in SUBSET Names}

(* The type invariant: the global scope is always open, for declare writes *)
(* to scopes.last() without looking.                                       *)
StackTypeOK ==
    /\ scopes \in Seq(Scope) /\ scopes # <<>>
    /\ call \in {<<"enter_scope">>, <<"exit_scope">>}
                 \cup ({"declare"} \X Names \X Symbols)

(* What every name means in each of the open scopes.                       *)
Views == [d \in 1 .. Len(scopes) |-> [n \in Names |-> lookup_at(d, n)]]

View == INSTANCE ScopedView WITH views <- Views

(* Scoping: a name keeps its meaning in a new scope until it is declared   *)
(* there; a declaration hides the outer ones and touches no other name;    *)
(* leaving a scope, after any calls in it, gives every name back the       *)
(* meaning it had when the scope was entered.                              *)
IsScoped == View!Spec
=============================================================================

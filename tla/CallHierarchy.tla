--------------------------- MODULE CallHierarchy ---------------------------
(* Who calls a function and whom it calls (CallHierarchy.cpp). The two lists   *)
(* are computed apart: the incoming calls by looking through every module that *)
(* depends on the function's for calls of a function defined at the same       *)
(* place, the outgoing ones by grouping the calls of a body by their type.     *)
(*                                                                             *)
(* A program has named functions, each in a module and maybe in another        *)
(* function, and calls, each in the innermost function around it (0 outside    *)
(* of all) and of a type: the function it comes from, 0 if none is known, and  *)
(* an instance of it, since the calls of a generic function differ in type.    *)
EXTENDS Naturals, FiniteSets

CONSTANT Programs

VARIABLE program

NoFunction == 0
Functions == DOMAIN program.functions
Calls == DOMAIN program.calls
ModuleOfFunction(f) == program.functions[f].module
CallModule(c) == program.calls[c].module
TypeOfCall(c) == program.calls[c].type

RECURSIVE AllDependents(_)
AllDependents(found) ==
    LET more == found \cup {r[1] : r \in {r \in program.requires : r[2] \in found}}
    IN IF more = found THEN found ELSE AllDependents(more)
-----------------------------------------------------------------------------
\* The type of a called function is kept by its expression or, for a member, by
\* the property of what it is a member of: which tells it does not matter here.
LookupFunctionCallType(c) == TypeOfCall(c)

\* Two types are of the same function when they were defined at one place.
IsSameFunction(a, b) == a = b \/ (a.function = b.function /\ a.function # NoFunction)

\* The calls a search of a function's body meets: those of the functions in it
\* too, or not.
RECURSIVE Encloses(_, _)
Encloses(f, g) ==
    \/ f = g
    \/ g # NoFunction /\ Encloses(f, program.functions[g].in)
OwnCalls(module, f) == {c \in Calls : CallModule(c) = module /\ program.calls[c].in = f}
AllCalls(module, f) == {c \in Calls : CallModule(c) = module /\ Encloses(f, program.calls[c].in)}

\* The item a call or a use of a function stands for: where it is defined.
PrepareCallHierarchy(type) == {type.function} \ {NoFunction}

\* Every function of a dependent module, and what is outside of its functions.
Callers(module) == {f \in Functions : ModuleOfFunction(f) = module} \cup {NoFunction}

CallHierarchyIncomingCalls(f) ==
    LET type == [function |-> f, instance |-> 0]
        found == {[module |-> m, caller |-> g,
                   ranges |-> {c \in OwnCalls(m, g) : IsSameFunction(LookupFunctionCallType(c), type)}] :
                  m \in AllDependents({ModuleOfFunction(f)}), g \in Functions \cup {NoFunction}}
    IN {i \in found : i.ranges # {} /\ i.caller \in Callers(i.module)}

\* One entry for each type that is called: a generic function may have several.
CallHierarchyOutgoingCalls(f) ==
    LET calls == AllCalls(ModuleOfFunction(f), f)
        grouped == {[type |-> type, ranges |-> {c \in calls : LookupFunctionCallType(c) = type}] :
                    type \in {LookupFunctionCallType(c) : c \in calls}}
    IN {[item |-> g.type.function, ranges |-> g.ranges] : g \in {g \in grouped : PrepareCallHierarchy(g.type) # {}}}
-----------------------------------------------------------------------------
\* What a program may do: a function is called in its own module or in one
\* that gets it through its requires.
IsCallable(c) ==
    LET f == TypeOfCall(c).function
    IN f # NoFunction => CallModule(c) \in AllDependents({ModuleOfFunction(f)})

ProgramInit == program \in Programs /\ \A c \in Calls : IsCallable(c)

\* The calls of a function are listed once, whatever function they are in; and a
\* function calls those it is listed as a caller of, with the calls of the
\* functions inside it.
CallsGoBothWays ==
    \A f \in Functions :
        LET incoming == CallHierarchyIncomingCalls(f)
            calls == {c \in Calls : TypeOfCall(c).function = f}
        IN /\ UNION {i.ranges : i \in incoming} = calls
           /\ \A i, j \in incoming : i # j => i.ranges \cap j.ranges = {}
           /\ \A g \in Functions :
                UNION {o.ranges : o \in {o \in CallHierarchyOutgoingCalls(g) : o.item = f}}
                    = UNION {i.ranges : i \in {i \in incoming : i.caller # NoFunction /\ Encloses(g, i.caller)}}
=============================================================================

--------------------------- MODULE Philosophers ---------------------------
(***************************************************************************)
(* OS/lab10.c: Philo philosophers take dishes from the table and eat each  *)
(* with two forks.  "id + 1 % PHILO" is id + 1, so the left fork of the    *)
(* last philosopher is a mutex beyond the end of the array: whether it     *)
(* works as a mutex of its own or can never be locked is up to the memory  *)
(* that lies there (a lock that fails at once does as well as one of its   *)
(* own, for nobody else uses it).  food_on_table holds foodlock throughout *)
(* and is one step.                                                        *)
(***************************************************************************)
EXTENDS Integers

CONSTANTS
    Philo,  \* PHILO
    Food    \* FOOD

VARIABLES
    forks,      \* who holds each fork: a philosopher, Nobody or Broken
    food,       \* the static variable of food_on_table
    dish,       \* f of each philosopher
    eaten,      \* the dishes each philosopher has eaten
    pc          \* where each philosopher is

vars == <<forks, food, dish, eaten, pc>>

Phils == 0 .. Philo - 1
Forks == 0 .. Philo
Nobody == -1
Broken == -2

Right(id) == id

Left(id) == id + 1

FirstFork(id) == IF id = 0 THEN Left(id) ELSE Right(id)

SecondFork(id) == IF id = 0 THEN Right(id) ELSE Left(id)

Init ==
    /\ \E beyond \in {Nobody, Broken} :
           forks = [k \in Forks |-> IF k = Philo THEN beyond ELSE Nobody]
    /\ food = Food
    /\ dish = [id \in Phils |-> 0]
    /\ eaten = [id \in Phils |-> {}]
    /\ pc = [id \in Phils |-> "table"]

Goto(id, l) == pc' = [pc EXCEPT ![id] = l]

\* The number of a dish is that of the dishes left, so the last one is 0.
Served == IF food > 0 THEN food - 1 ELSE 0

Remaining == IF food > 0 THEN food - 1 ELSE 0

\* The loop condition of philosopher
NoDish(f) == f = 0

FoodOnTable(id) ==
    /\ pc[id] = "table"
    /\ food' = Remaining
    /\ dish' = [dish EXCEPT ![id] = Served]
    /\ Goto(id, IF NoDish(Served) THEN "done" ELSE "first")
    /\ UNCHANGED <<forks, eaten>>

Free(k) == forks[k] = Nobody

\* get_fork
Take(id, k, here, next) ==
    /\ pc[id] = here
    /\ Free(k)
    /\ forks' = [forks EXCEPT ![k] = id]
    /\ Goto(id, next)
    /\ UNCHANGED <<food, dish, eaten>>

TakeFirst(id) == Take(id, FirstFork(id), "first", "second")
TakeSecond(id) == Take(id, SecondFork(id), "second", "eat")

\* Mutant: the left fork stays with the philosopher.
DownLeft_Keeps(id) == forks

DownLeft(id) == [forks EXCEPT ![Left(id)] = Nobody]

\* The philosopher eats and puts down the left fork, then the right one.
Eat(id) ==
    /\ pc[id] = "eat"
    /\ eaten' = [eaten EXCEPT ![id] = @ \union {dish[id]}]
    /\ forks' = DownLeft(id)
    /\ Goto(id, "down")
    /\ UNCHANGED <<food, dish>>

DownRight(id) ==
    /\ pc[id] = "down"
    /\ forks' = [forks EXCEPT ![Right(id)] = Nobody]
    /\ Goto(id, "table")
    /\ UNCHANGED <<food, dish, eaten>>

Philosopher(id) ==
    FoodOnTable(id) \/ TakeFirst(id) \/ TakeSecond(id) \/ Eat(id) \/ DownRight(id)

Next == \E id \in Phils : Philosopher(id)

Spec == Init /\ [][Next]_vars

-----------------------------------------------------------------------------
(* Properties. *)

\* The variables have their types.
TypeOK ==
    /\ forks \in [Forks -> Phils \union {Nobody, Broken}]
    /\ food \in 0 .. Food
    /\ dish \in [Phils -> 0 .. Food - 1]
    /\ eaten \in [Phils -> SUBSET (1 .. Food - 1)]
    /\ pc \in [Phils -> {"table", "first", "second", "eat", "down", "done"}]

\* Two philosophers who share a fork never eat at the same time (get_fork,
\* down_forks).
NeighboursApart ==
    \A id \in Phils : id + 1 \in Phils => ~(pc[id] = "eat" /\ pc[id + 1] = "eat")

\* The dishes eaten so far.
Meals == UNION {eaten[id] : id \in Phils}

\* A dish is eaten by one philosopher only, once (food_on_table).
NoDishTwice ==
    /\ \A p, q \in Phils : p # q => eaten[p] \intersect eaten[q] = {}
    /\ \A p \in Phils : pc[p] \in {"first", "second", "eat"} => dish[p] \notin Meals

AllDone == \A id \in Phils : pc[id] = "done"

\* When all are done, all dishes but the last are eaten: food_on_table ends
\* the meal with the dish that it has just taken from the table.
LastDishLeft == AllDone => Meals = 1 .. Food - 1

\* A fork is held by who took it until it is put down (get_fork, down_forks).
ForksHeld ==
    \A id \in Phils :
        /\ pc[id] \in {"second", "eat"} => forks[FirstFork(id)] = id
        /\ pc[id] = "eat" => forks[SecondFork(id)] = id
        /\ pc[id] = "down" => forks[Right(id)] = id

\* Every dish that has left the table has been eaten or is in front of one
\* philosopher, and the table is empty when the first one is done
\* (food_on_table).
Dining == {"first", "second", "eat"}
DishesApart ==
    /\ \A p \in Phils : pc[p] \in Dining => dish[p] >= food /\ dish[p] # 0
    /\ \A p, q \in Phils :
           p # q /\ pc[p] \in Dining /\ pc[q] \in Dining => dish[p] # dish[q]
    /\ \A d \in Meals : d >= food
    /\ \A d \in 1 .. Food - 1 :
           d >= food => d \in Meals \/ \E p \in Phils : pc[p] \in Dining /\ dish[p] = d
    /\ \A p \in Phils : pc[p] = "done" => food = 0

\* Types, forks that keep neighbours apart, and dishes taken once.
Inv ==
    TypeOK /\ NeighboursApart /\ NoDishTwice /\ LastDishLeft /\ ForksHeld /\ DishesApart

=============================================================================

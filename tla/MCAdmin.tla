------------------------------ MODULE MCAdmin ------------------------------
(***************************************************************************)
(* Catalog on three requests, one clock and one fault, for each of a number *)
(* of mixes of calls: each mix brings together the calls that one of the   *)
(* properties is about, in every order and with every overlap.             *)
(***************************************************************************)
EXTENDS Catalog

CONSTANTS a, b, c, admin, desk

Blank ==
  [route |-> "get", email |-> [name |-> "ann", spelling |-> "plain"],
   password |-> "first", body |-> TRUE, identifier |-> TRUE, token |-> "none",
   resource |-> desk, units |-> 2, active |-> TRUE, rows |-> <<>>]

Padded == [name |-> "ann", spelling |-> "padded"]
Eve == [name |-> "eve", spelling |-> "plain"]

SignUp(email, password) ==
  [Blank EXCEPT !.route = "signup", !.email = email, !.password = password]
LogIn(password) == [Blank EXCEPT !.route = "login", !.password = password]
With(token, route) == [Blank EXCEPT !.route = route, !.token = token]
ByStaff(route) == With(admin, route)
Import(rows) == [ByStaff("bulk") EXCEPT !.rows = rows]
Get == Blank
Update(units, active) ==
  [ByStaff("update") EXCEPT !.units = units, !.active = active]

Mix(x, y, z) ==
  [q \in Requests |-> CASE q = a -> x [] q = b -> y [] q = c -> z]

MCCalls ==
  { Mix(SignUp(Blank.email, "first"), SignUp(Padded, "second"), LogIn("second")),
    Mix(SignUp(Blank.email, "first"), SignUp(Eve, "first"), With(b, "create")),
    Mix(SignUp(Blank.email, "first"), With(a, "logout"), With(a, "session")),
    Mix(SignUp(Blank.email, "first"), LogIn("first"), With(b, "session")),
    Mix(SignUp(Padded, "first"), SignUp(Padded, "first"), With(a, "session")),
    Mix(Update(1, FALSE), Update(0, TRUE), Get),
    Mix(Get, Update(1, FALSE), Get),
    Mix(Get, Update(1, FALSE), Update(3, FALSE)),
    Mix(Update(1, FALSE), Get, ByStaff("search")),
    Mix(Update(1, FALSE), ByStaff("remove"), Get),
    Mix(Import(<<"good", "bad", "good">>), ByStaff("list"), ByStaff("create")),
    Mix(Import(<<"good", "scalar">>), ByStaff("list"), With("none", "search")),
    Mix([ByStaff("update") EXCEPT !.body = FALSE],
        [ByStaff("remove") EXCEPT !.identifier = FALSE],
        [ByStaff("search") EXCEPT !.body = FALSE]),
    Mix([SignUp(Eve, "first") EXCEPT !.body = FALSE], With("none", "create"),
        With("malformed", "logout")),
    Mix(With("malformed", "search"), With("none", "organizations"),
        With("malformed", "session")) }

=============================================================================

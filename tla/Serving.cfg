CONSTANTS
    App = App
    Child = Child
    Leaf = Leaf
    Blueprints = {App, Child, Leaf}
    Nothing = Nothing
    NoHost = NoHost
    AnyHost = AnyHost
    MaxSize = 1
    MaxRequests = 3
    Supers <- MCSupers
    Setups <- MCSetups
SPECIFICATION Spec
INVARIANTS
    RouteIsTheTables
    EveryRouteIsServed
    EndpointIsGuarded
    OwnComponents
    MostSpecificAnswers
CHECK_DEADLOCK FALSE

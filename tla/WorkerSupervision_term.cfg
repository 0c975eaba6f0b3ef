SPECIFICATION Spec
CONSTANTS
    Containers = {c1, c2}
    None = None
    MaxDisruptions = 1
PROPERTY GracefulShutdown

SPECIFICATION Spec
CONSTANT Reports = {a, b}
PROPERTY StartsAnew
